---- MODULE Spec2Model ----
(***************************************************************************)
(* A model of the BeaconAI recommendation engine and its model-freshness   *)
(* cache (backend/beacon_torch_cloud.py, class HuggingFaceBeaconAI with    *)
(* SupabaseModelStorage) and of the HTTP layer that drives it              *)
(* (backend/huggingface_spaces_api.py).                                    *)
(*                                                                         *)
(* Numeric content is abstracted as follows.  An embedding vector is one   *)
(* integer (embedding_dim collapsed to 1).  The weights of a model are a   *)
(* deterministic function of the pair (seed, steps): the seed stands for   *)
(* the random initialisation drawn in the model's constructor, steps is    *)
(* the number of optimizer steps applied since.  Time is counted in ticks, *)
(* TicksPerDay of them to a calendar day.                                  *)
(***************************************************************************)
EXTENDS Integers, Sequences, FiniteSets, TLC

VARIABLES
    now,        \* the wall clock, in ticks (datetime.now())
    table,      \* the rows of the beacon_models table
    next_id,    \* the table's SERIAL primary key
    inst,       \* beacon_cache: owner key -> HuggingFaceBeaconAI instance
    call,       \* the last call made: operation, arguments, outcome
    fpin,       \* fingerprint check: the two input orderings and their hashes
    saved,      \* per owner key: the instance as its last successful save left it
    req,        \* HTTP layer: the training runs of the event loop and the workers
    runs,       \* the number of calls counted against the bound of the specification
    life        \* per owner key: the last of fit_data, train_model and
                \* load_trained_model that returned on the instance

vars == <<now, table, next_id, inst, call, fpin, saved, req, runs, life>>

----------------------------------------------------------------------------
(* Bounds of the model *)

TicksPerDay == 2
MaxTime == 3
MaxSeed == 1
TrainSeed == 0
MaxEpochs == 2
MaxTopN == 2
MaxLen == 2
MaxRuns == 2
MaxKeepDays == 1
MaxEngineCalls == 3
LargeLen == 300000

(* Program constants *)

LoadMaxAgeDays == 1
ForegroundLimitMs == 30000
DefaultPatience == 3
DefaultBatchSize == 256
MaxWorkers == 2

----------------------------------------------------------------------------
(* Python values *)

\* None as a user id; an optional argument is a set, {} for None.
NoneId == "None"
NoneArg == {}
Some(x) == {x}
The(opt) == CHOOSE x \in opt : TRUE

\* A number as Python holds it: its value and whether it is a float.
\* 1 and 1.0 compare equal and print differently.
PyInt(n) == [num |-> n, isfloat |-> FALSE]
PyFloat(n) == [num |-> n, isfloat |-> TRUE]

\* The identifiers and feature tokens of the model, in string order.
Atoms == <<"a", "b", "c", "i1", "i2", "i3", "u1", "u2", "u9">>

Ord(s) == CHOOSE k \in 1..Len(Atoms) : Atoms[k] = s

Range(s) == {s[k] : k \in 1..Len(s)}

Max(S) == CHOOSE x \in S : \A y \in S : y <= x

Min2(a, b) == IF a <= b THEN a ELSE b

RECURSIVE MapSeq(_, _)
MapSeq(s, k) == IF k > Len(s) THEN <<>> ELSE <<Ord(s[k])>> \o MapSeq(s, k + 1)

\* Python's < on lists and tuples of comparable items: lexicographic, a
\* proper prefix is smaller.
RECURSIVE LexLess(_, _)
LexLess(a, b) ==
    IF a = <<>> THEN b # <<>>
    ELSE IF b = <<>> THEN FALSE
    ELSE IF Head(a) < Head(b) THEN TRUE
    ELSE IF Head(a) > Head(b) THEN FALSE
    ELSE LexLess(Tail(a), Tail(b))

\* Comparison keys: what Python's tuple comparison looks at.
KeyId(x) == <<Ord(x)>>
KeyFeature(x) == <<Ord(x[1])>> \o MapSeq(x[2], 1)
KeyInteraction(x) == <<Ord(x[1]), Ord(x[2]), x[3].num>>

Key(kind, x) ==
    CASE kind = "id" -> KeyId(x)
      [] kind = "feature" -> KeyFeature(x)
      [] OTHER -> KeyInteraction(x)

\* sorted(): a stable sort, items that compare equal keep their input order.
RECURSIVE InsertSorted(_, _, _)
InsertSorted(kind, s, x) ==
    IF s = <<>> THEN <<x>>
    ELSE IF LexLess(Key(kind, x), Key(kind, Head(s)))
         THEN <<x>> \o s
         ELSE <<Head(s)>> \o InsertSorted(kind, Tail(s), x)

RECURSIVE Sorted(_, _)
Sorted(kind, s) ==
    IF s = <<>> THEN <<>>
    ELSE InsertSorted(kind, Sorted(kind, SubSeq(s, 1, Len(s) - 1)), s[Len(s)])

\* str() of a number: an int prints without, a float with a decimal point.
IntStr(n) ==
    CASE n = -1 -> "-1" [] n = 0 -> "0" [] n = 1 -> "1" [] n = 2 -> "2"
      [] OTHER -> "3"

NumStr(w) == IF w.isfloat THEN <<IntStr(w.num), ".0">> ELSE <<IntStr(w.num)>>

RECURSIVE JoinStr(_, _)
JoinStr(s, k) ==
    IF k > Len(s) THEN <<>>
    ELSE (IF k > 1 THEN <<", ">> ELSE <<>>) \o <<"'", s[k], "'">> \o JoinStr(s, k + 1)

\* repr() of one item, as the sequence of its characters' tokens.
ReprItem(kind, x) ==
    CASE kind = "id" -> <<"'", x, "'">>
      [] kind = "feature" ->
            <<"(", "'", x[1], "'", ", ", "[">> \o JoinStr(x[2], 1) \o <<"]", ")">>
      [] OTHER ->
            <<"(", "'", x[1], "'", ", ", "'", x[2], "'", ", ">> \o NumStr(x[3]) \o <<")">>

RECURSIVE JoinRepr(_, _, _)
JoinRepr(kind, s, k) ==
    IF k > Len(s) THEN <<>>
    ELSE (IF k > 1 THEN <<", ">> ELSE <<>>) \o ReprItem(kind, s[k])
         \o JoinRepr(kind, s, k + 1)

\* str() of a list.
Str(kind, s) == <<"[">> \o JoinRepr(kind, s, 1) \o <<"]">>

\* hashlib.md5(...).hexdigest(): a function of the string, taken injective.
Md5(s) == <<"md5">> \o s

\* HuggingFaceBeaconAI._compute_data_fingerprint
ComputeDataFingerprint(users, events, user_features, event_features, interactions) ==
    Md5(Str("id", Sorted("id", users)) \o Str("id", Sorted("id", events))
        \o Str("feature", Sorted("feature", user_features))
        \o Str("feature", Sorted("feature", event_features))
        \o Str("interaction", Sorted("interaction", interactions)))

FingerprintOf(d) ==
    ComputeDataFingerprint(d.users, d.events, d.user_features, d.event_features,
                           d.interactions)

----------------------------------------------------------------------------
(* Inputs of the engine *)

Triple(u, e, w) == <<u, e, w>>

\* Two users, three events, no features, three likes.
DataExample ==
    [users |-> <<"u1", "u2">>, events |-> <<"i1", "i2", "i3">>,
     user_features |-> <<>>, event_features |-> <<>>,
     interactions |-> <<Triple("u1", "i1", PyFloat(1)), Triple("u1", "i2", PyFloat(1)),
                        Triple("u2", "i3", PyFloat(1))>>]

\* The same items, handed over in another order.
DataExampleReordered ==
    [DataExample EXCEPT !.users = <<"u2", "u1">>,
                        !.interactions = <<DataExample.interactions[3],
                                           DataExample.interactions[1],
                                           DataExample.interactions[2]>>]

\* Features, a weight of 2.0, a negative weight, and ids the lists do not have.
DataWeighted ==
    [users |-> <<"u1", "u2">>, events |-> <<"i1", "i2">>,
     user_features |-> <<<<"u1", <<"a", "b">>>>, <<"u9", <<"a">>>>>>,
     event_features |-> <<<<"i1", <<"c">>>>>>,
     interactions |-> <<Triple("u1", "i1", PyFloat(2)), Triple("u2", "i2", PyFloat(1)),
                        Triple("u1", "i2", PyFloat(-1)), Triple("u9", "i1", PyFloat(1))>>]

\* No triple with a weight above zero.
DataNoPositives ==
    [users |-> <<"u1">>, events |-> <<"i1", "i2">>,
     user_features |-> <<>>, event_features |-> <<>>,
     interactions |-> <<Triple("u1", "i1", PyFloat(-1))>>]

\* No event at all.
DataNoEvents ==
    [users |-> <<"u1">>, events |-> <<>>, user_features |-> <<>>,
     event_features |-> <<>>, interactions |-> <<>>]

\* One user tag and one event tag.
DataTagged ==
    [users |-> <<"u1", "u2">>, events |-> <<"i1", "i2">>,
     user_features |-> <<<<"u1", <<"a">>>>>>,
     event_features |-> <<<<"i2", <<"c">>>>>>,
     interactions |-> <<Triple("u1", "i1", PyFloat(1)), Triple("u2", "i2", PyFloat(2))>>]

AllData ==
    {DataExample, DataExampleReordered, DataWeighted, DataNoPositives, DataNoEvents,
     DataTagged}

\* The fingerprints of the inputs above, computed once.
FingerprintTable == [d \in AllData |-> FingerprintOf(d)]

Fingerprint(d) == IF d \in AllData THEN FingerprintTable[d] ELSE FingerprintOf(d)

----------------------------------------------------------------------------
(* The latent factor model: CloudMatrixFactorizationModel *)

EmptyMap == [x \in {} |-> 0]

NoModel ==
    [present |-> FALSE, num_users |-> 0, num_items |-> 0, num_user_features |-> 0,
     num_item_features |-> 0, use_bias |-> TRUE, seed |-> 0, steps |-> 0,
     training |-> FALSE]

\* __init__ and _init_weights: the tables are sized by the configuration and
\* filled at random (the seed); a new module is in training mode.
NewModel(nu, ni, nuf, nif, use_bias, seed) ==
    [present |-> TRUE, num_users |-> nu, num_items |-> ni, num_user_features |-> nuf,
     num_item_features |-> nif, use_bias |-> use_bias, seed |-> seed, steps |-> 0,
     training |-> TRUE]

Salt(tbl) ==
    CASE tbl = "user" -> 1 [] tbl = "item" -> 2 [] tbl = "user_feature" -> 3
      [] tbl = "item_feature" -> 4 [] tbl = "user_bias" -> 5 [] tbl = "item_bias" -> 6
      [] OTHER -> 7

\* Row idx of an embedding table: a function of the initialisation and of the
\* optimizer steps applied.
Weight(m, tbl, idx) == ((m.seed * 7 + m.steps * 3 + idx * 5 + Salt(tbl)) % 5) - 2

\* The bias tables are initialised to zero and move only with optimizer steps.
Bias(m, tbl, idx) ==
    IF m.steps = 0 THEN 0 ELSE ((m.seed + m.steps * 3 + idx * 2 + Salt(tbl)) % 3) - 1

\* forward_vectorized for one (user, item) pair.
ForwardVectorized(m, u, i, uft, ift) ==
    LET prediction == (Weight(m, "user", u) + uft) * (Weight(m, "item", i) + ift)
    IN  IF m.use_bias
        THEN prediction + Bias(m, "user_bias", u) + Bias(m, "item_bias", i)
             + Bias(m, "global_bias", 0)
        ELSE prediction

\* torch.sigmoid(x) * 3.0 in float32, in thousandths: increasing, and flat
\* where float32 saturates.
Sigmoid3(x) ==
    IF x <= -17 THEN 0 ELSE IF x >= 17 THEN 3000 ELSE 1500 + 88 * x

----------------------------------------------------------------------------
(* HuggingFaceBeaconAI: construction and fit_data *)

NoMatrix == [present |-> FALSE, shape |-> <<0, 0>>, entries |-> <<>>]

NoDate == -1

\* HuggingFaceBeaconAI.__init__
NewInstance(user_id) ==
    [user_id |-> user_id, use_bias |-> TRUE, model |-> NoModel,
     user_id_map |-> EmptyMap, item_id_map |-> EmptyMap,
     user_feature_map |-> EmptyMap, item_feature_map |-> EmptyMap,
     internal_to_user |-> EmptyMap, internal_to_item |-> EmptyMap,
     user_feature_tensor |-> EmptyMap, item_feature_tensor |-> EmptyMap,
     user_features_raw |-> <<>>, item_features_raw |-> <<>>,
     interactions |-> NoMatrix, data_fingerprint |-> <<>>,
     last_training_date |-> NoDate]

\* {uid: idx for idx, uid in enumerate(ids)}: a repeated id keeps its last index.
IdMap(ids) ==
    [x \in Range(ids) |-> Max({k - 1 : k \in {j \in 1..Len(ids) : ids[j] = x}})]

\* {idx: uid for uid, idx in id_map.items()}
ReverseMap(m) ==
    [k \in {m[x] : x \in DOMAIN m} |-> CHOOSE x \in DOMAIN m : m[x] = k]

\* set(f for _, feats in features for f in feats)
FeatureTags(features) == UNION {Range(f[2]) : f \in Range(features)}

\* {feat: idx for idx, feat in enumerate(tags)}: the iteration order of a set
\* of strings is not fixed, any numbering 0..n-1 of the tags can result.
FeatureMaps(tags) ==
    {fm \in [tags -> 0..(Cardinality(tags) - 1)] :
        \A s, t \in tags : s # t => fm[s] # fm[t]}

RECURSIVE TagIndices(_, _, _)
TagIndices(feats, feature_map, k) ==
    IF k > Len(feats) THEN <<>>
    ELSE (IF feats[k] \in DOMAIN feature_map THEN <<feature_map[feats[k]]>> ELSE <<>>)
         \o TagIndices(feats, feature_map, k + 1)

\* features_dict[internal_id] = ...: a dict keeps the position of a key that
\* is assigned again.
RECURSIVE DictPut(_, _, _)
DictPut(d, key, val) ==
    IF d = <<>> THEN <<<<key, val>>>>
    ELSE IF Head(d)[1] = key THEN <<<<key, val>>>> \o Tail(d)
    ELSE <<Head(d)>> \o DictPut(Tail(d), key, val)

\* _process_features
RECURSIVE ProcessFeatures(_, _, _, _)
ProcessFeatures(feature_data, id_map, feature_map, k) ==
    IF k = 0 THEN <<>>
    ELSE LET before == ProcessFeatures(feature_data, id_map, feature_map, k - 1)
             entity_id == feature_data[k][1]
             feature_indices == TagIndices(feature_data[k][2], feature_map, 1)
         IN  IF entity_id \in DOMAIN id_map /\ feature_indices # <<>>
             THEN DictPut(before, id_map[entity_id], feature_indices)
             ELSE before

\* torch.zeros(n, embedding_dim)
Zeros(n) == [k \in 0..(n - 1) |-> 0]

\* Faulty variant: a triple of weight zero is kept too.
RECURSIVE PositiveTriplesOrZero(_, _, _, _, _)
PositiveTriplesOrZero(interactions, events, user_id_map, item_id_map, k) ==
    IF k > Len(interactions) THEN <<>>
    ELSE LET u == interactions[k][1]
             e == interactions[k][2]
             val == interactions[k][3]
         IN  (IF e \in Range(events) /\ val.num >= 0 /\ u \in DOMAIN user_id_map
                 /\ e \in DOMAIN item_id_map
              THEN <<<<user_id_map[u], item_id_map[e], val.num>>>>
              ELSE <<>>)
             \o PositiveTriplesOrZero(interactions, events, user_id_map, item_id_map, k + 1)

\* The triples fit_data keeps: a known event, a weight > 0, a known user.
RECURSIVE PositiveTriples(_, _, _, _, _)
PositiveTriples(interactions, events, user_id_map, item_id_map, k) ==
    IF k > Len(interactions) THEN <<>>
    ELSE LET u == interactions[k][1]
             e == interactions[k][2]
             val == interactions[k][3]
         IN  (IF e \in Range(events) /\ val.num > 0 /\ u \in DOMAIN user_id_map
                 /\ e \in DOMAIN item_id_map
              THEN <<<<user_id_map[u], item_id_map[e], val.num>>>>
              ELSE <<>>)
             \o PositiveTriples(interactions, events, user_id_map, item_id_map, k + 1)

\* coo_matrix(...) rejects an index that does not fit the shape.
CooMatrixFits(entries, shape) ==
    \A k \in 1..Len(entries) : entries[k][1] < shape[1] /\ entries[k][2] < shape[2]

ValueError == "ValueError"
NoError == "ok"

\* Faulty variant: a model the instance already has is kept and trained on.
FitDataKeepingModel(i, d, seed, ufm, ifm) ==
    LET uim == IdMap(d.users)
        iim == IdMap(d.events)
        mapped ==
            [i EXCEPT !.user_id_map = uim, !.item_id_map = iim,
                      !.internal_to_user = ReverseMap(uim),
                      !.internal_to_item = ReverseMap(iim),
                      !.user_feature_map = ufm, !.item_feature_map = ifm,
                      !.user_feature_tensor = Zeros(Cardinality(DOMAIN uim)),
                      !.item_feature_tensor = Zeros(Cardinality(DOMAIN iim)),
                      !.user_features_raw =
                          ProcessFeatures(d.user_features, uim, ufm, Len(d.user_features)),
                      !.item_features_raw =
                          ProcessFeatures(d.event_features, iim, ifm, Len(d.event_features))]
        entries == PositiveTriples(d.interactions, d.events, uim, iim, 1)
        shape == <<Cardinality(DOMAIN uim), Cardinality(DOMAIN iim)>>
    IN  IF ~CooMatrixFits(entries, shape)
        THEN [inst |-> mapped, error |-> ValueError]
        ELSE [inst |->
                [mapped EXCEPT
                    !.interactions = [present |-> TRUE, shape |-> shape, entries |-> entries],
                    !.model = IF i.model.present THEN i.model
                              ELSE NewModel(shape[1], shape[2], Cardinality(DOMAIN ufm),
                                            Cardinality(DOMAIN ifm), i.use_bias, seed),
                    !.data_fingerprint = Fingerprint(d)],
              error |-> NoError]

\* fit_data: the maps, the feature vocabularies and raw features, the zeroed
\* feature tensors, then the interaction matrix, a new model and the
\* fingerprint. An index outside the matrix raises after the maps are replaced.
FitData(i, d, seed, ufm, ifm) ==
    LET uim == IdMap(d.users)
        iim == IdMap(d.events)
        mapped ==
            [i EXCEPT !.user_id_map = uim, !.item_id_map = iim,
                      !.internal_to_user = ReverseMap(uim),
                      !.internal_to_item = ReverseMap(iim),
                      !.user_feature_map = ufm, !.item_feature_map = ifm,
                      !.user_feature_tensor = Zeros(Cardinality(DOMAIN uim)),
                      !.item_feature_tensor = Zeros(Cardinality(DOMAIN iim)),
                      !.user_features_raw =
                          ProcessFeatures(d.user_features, uim, ufm, Len(d.user_features)),
                      !.item_features_raw =
                          ProcessFeatures(d.event_features, iim, ifm, Len(d.event_features))]
        entries == PositiveTriples(d.interactions, d.events, uim, iim, 1)
        shape == <<Cardinality(DOMAIN uim), Cardinality(DOMAIN iim)>>
    IN  IF ~CooMatrixFits(entries, shape)
        THEN [inst |-> mapped, error |-> ValueError]
        ELSE [inst |->
                [mapped EXCEPT
                    !.interactions = [present |-> TRUE, shape |-> shape, entries |-> entries],
                    !.model = NewModel(shape[1], shape[2], Cardinality(DOMAIN ufm),
                                       Cardinality(DOMAIN ifm), i.use_bias, seed),
                    !.data_fingerprint = Fingerprint(d)],
              error |-> NoError]

\* fit_data up to _precompute_feature_tensors: the statements that assign the
\* maps, the feature vocabularies, the zeroed tensors and the raw features.
FitDataMappings(i, d, ufm, ifm) ==
    LET uim == IdMap(d.users)
        iim == IdMap(d.events)
    IN  [i EXCEPT !.user_id_map = uim, !.item_id_map = iim,
                  !.internal_to_user = ReverseMap(uim),
                  !.internal_to_item = ReverseMap(iim),
                  !.user_feature_map = ufm, !.item_feature_map = ifm,
                  !.user_feature_tensor = Zeros(Cardinality(DOMAIN uim)),
                  !.item_feature_tensor = Zeros(Cardinality(DOMAIN iim)),
                  !.user_features_raw =
                      ProcessFeatures(d.user_features, uim, ufm, Len(d.user_features)),
                  !.item_features_raw =
                      ProcessFeatures(d.event_features, iim, ifm, Len(d.event_features))]

\* The rest of fit_data: the interaction matrix, the model and the
\* fingerprint. The statements read self.user_id_map, self.item_id_map and
\* the feature maps as they are when they run.
FitDataModel(i, d, seed) ==
    LET entries == PositiveTriples(d.interactions, d.events, i.user_id_map,
                                   i.item_id_map, 1)
        shape == <<Cardinality(DOMAIN i.user_id_map), Cardinality(DOMAIN i.item_id_map)>>
    IN  IF ~CooMatrixFits(entries, shape)
        THEN [inst |-> i, error |-> ValueError]
        ELSE [inst |->
                [i EXCEPT
                    !.interactions = [present |-> TRUE, shape |-> shape, entries |-> entries],
                    !.model = NewModel(shape[1], shape[2],
                                       Cardinality(DOMAIN i.user_feature_map),
                                       Cardinality(DOMAIN i.item_feature_map),
                                       i.use_bias, seed),
                    !.data_fingerprint = Fingerprint(d)],
              error |-> NoError]

----------------------------------------------------------------------------
(* HuggingFaceBeaconAI: train_model *)

IndexError == "IndexError"
KeyError == "KeyError"
AttributeError == "AttributeError"
FileNotFoundError == "FileNotFoundError"

RECURSIVE SumWeights(_, _, _, _)
SumWeights(m, tbl, idxs, k) ==
    IF k > Len(idxs) THEN 0
    ELSE Weight(m, tbl, idxs[k]) + SumWeights(m, tbl, idxs, k + 1)

\* One loop of _update_feature_tensors: each entity's row becomes the sum of
\* its features' embeddings; a feature index outside the model's table, or a
\* row outside the tensor, raises and leaves the rows written so far.
RECURSIVE UpdateTensor(_, _, _, _, _, _)
UpdateTensor(tensor, raw, m, tbl, nfeat, k) ==
    IF k > Len(raw) THEN [tensor |-> tensor, error |-> NoError]
    ELSE LET id == raw[k][1]
             idxs == raw[k][2]
         IN  IF (\E j \in 1..Len(idxs) : idxs[j] >= nfeat) \/ id \notin DOMAIN tensor
             THEN [tensor |-> tensor, error |-> IndexError]
             ELSE UpdateTensor([tensor EXCEPT ![id] = SumWeights(m, tbl, idxs, 1)],
                               raw, m, tbl, nfeat, k + 1)

\* _update_feature_tensors, called with a model present.
UpdateFeatureTensors(i) ==
    LET m == [i.model EXCEPT !.training = FALSE]
        u == UpdateTensor(i.user_feature_tensor, i.user_features_raw, m,
                          "user_feature", m.num_user_features, 1)
        iu == [i EXCEPT !.model = m, !.user_feature_tensor = u.tensor]
        v == UpdateTensor(i.item_feature_tensor, i.item_features_raw, m,
                          "item_feature", m.num_item_features, 1)
    IN  IF u.error # NoError THEN [inst |-> iu, error |-> u.error]
        ELSE [inst |-> [iu EXCEPT !.item_feature_tensor = v.tensor], error |-> v.error]

\* The lookups of one training batch stay inside the model's tables and the
\* feature tensors: for the positives, and for negatives drawn from
\* 0..len(user_id_map)-1 and 0..len(item_id_map)-1.
BatchFits(i) ==
    LET m == i.model
        nu == Cardinality(DOMAIN i.user_id_map)
        ni == Cardinality(DOMAIN i.item_id_map)
        e == i.interactions.entries
    IN  /\ \A k \in 1..Len(e) :
              /\ e[k][1] < m.num_users /\ e[k][1] \in DOMAIN i.user_feature_tensor
              /\ e[k][2] < m.num_items /\ e[k][2] \in DOMAIN i.item_feature_tensor
        /\ nu <= m.num_users /\ nu <= Cardinality(DOMAIN i.user_feature_tensor)
        /\ ni <= m.num_items /\ ni <= Cardinality(DOMAIN i.item_feature_tensor)

\* range(0, dataset_size, batch_size) has this many starts.
NumBatches(dataset_size, batch_size) ==
    IF batch_size < 0 \/ dataset_size = 0 THEN 0
    ELSE (dataset_size + batch_size - 1) \div batch_size

\* best_loss starts at float('inf'), written -1.
Infinity == -1

\* Faulty variant: a mean loss equal to the best so far counts as an
\* improvement.
ImprovesOrEqual(avg_loss, best_loss) == best_loss = Infinity \/ avg_loss <= best_loss

\* avg_loss < best_loss
Improves(avg_loss, best_loss) == best_loss = Infinity \/ avg_loss < best_loss

\* The optimizer steps of one epoch: one per batch.
StepsOfEpoch(dataset_size, batch_size) == NumBatches(dataset_size, batch_size)

\* The epoch loop of train_model from epoch `epoch` on. losses[k] is the mean
\* loss the k-th epoch comes out with when it has batches.
RECURSIVE EpochLoop(_, _, _, _, _, _, _)
EpochLoop(i, p, losses, dataset_size, epoch, best_loss, patience_counter) ==
    IF epoch > p.epochs THEN [inst |-> i, error |-> NoError, epochs_run |-> epoch - 1]
    ELSE LET t == [i EXCEPT !.model.training = TRUE]
         IN  IF p.batch_size = 0
             THEN [inst |-> t, error |-> ValueError, epochs_run |-> epoch - 1]
             ELSE LET batches == NumBatches(dataset_size, p.batch_size)
                      stepped == [t EXCEPT !.model.steps =
                                      @ + StepsOfEpoch(dataset_size, p.batch_size)]
                      avg_loss == IF batches > 0 THEN losses[epoch] ELSE 0
                  IN  IF batches > 0 /\ ~BatchFits(t)
                      THEN [inst |-> t, error |-> IndexError, epochs_run |-> epoch - 1]
                      ELSE IF ~p.use_early_stopping
                      THEN EpochLoop(stepped, p, losses, dataset_size, epoch + 1,
                                     best_loss, patience_counter)
                      ELSE IF Improves(avg_loss, best_loss)
                      THEN EpochLoop(stepped, p, losses, dataset_size, epoch + 1,
                                     avg_loss, 0)
                      ELSE IF patience_counter + 1 >= p.patience
                      THEN [inst |-> stepped, error |-> NoError, epochs_run |-> epoch]
                      ELSE EpochLoop(stepped, p, losses, dataset_size, epoch + 1,
                                     best_loss, patience_counter + 1)

\* Faulty variant: the test for a missing model is left out, and the
\* optimizer's constructor fails on None with AttributeError.
TrainModelUnguarded(i, p, losses) ==
    IF ~i.model.present \/ ~i.interactions.present
    THEN [inst |-> i, error |-> AttributeError, epochs_run |-> 0]
    ELSE LET num_positives == Len(i.interactions.entries)
             num_negatives == num_positives * p.negative_sampling_ratio
             dataset_size == num_positives + num_negatives
         IN  IF num_negatives > 0
                /\ (DOMAIN i.user_id_map = {} \/ DOMAIN i.item_id_map = {})
             THEN [inst |-> i, error |-> ValueError, epochs_run |-> 0]
             ELSE LET upd == UpdateFeatureTensors(i)
                  IN  IF upd.error # NoError
                      THEN [inst |-> upd.inst, error |-> upd.error, epochs_run |-> 0]
                      ELSE EpochLoop(upd.inst, p, losses, dataset_size, 1, Infinity, 0)

\* train_model
TrainModel(i, p, losses) ==
    IF ~i.model.present
    THEN [inst |-> i, error |-> ValueError, epochs_run |-> 0]
    ELSE IF ~i.interactions.present
    THEN [inst |-> i, error |-> AttributeError, epochs_run |-> 0]
    ELSE LET num_positives == Len(i.interactions.entries)
             num_negatives == num_positives * p.negative_sampling_ratio
             dataset_size == num_positives + num_negatives
         IN  IF num_negatives > 0
                /\ (DOMAIN i.user_id_map = {} \/ DOMAIN i.item_id_map = {})
             THEN [inst |-> i, error |-> ValueError, epochs_run |-> 0]
             ELSE LET upd == UpdateFeatureTensors(i)
                  IN  IF upd.error # NoError
                      THEN [inst |-> upd.inst, error |-> upd.error, epochs_run |-> 0]
                      ELSE EpochLoop(upd.inst, p, losses, dataset_size, 1, Infinity, 0)

----------------------------------------------------------------------------
(* HuggingFaceBeaconAI: recommend_for_user *)

\* scores[idx] for the items 0..num_items-1.
Scores(i, user_internal_id) ==
    [idx \in 0..(Cardinality(DOMAIN i.item_id_map) - 1) |->
        Sigmoid3(ForwardVectorized(i.model, user_internal_id, idx,
                                   i.user_feature_tensor[user_internal_id],
                                   i.item_feature_tensor[idx]))]

\* The lookups of the scoring loop stay inside the tables and the tensors.
ScoringFits(i, user_internal_id) ==
    LET ni == Cardinality(DOMAIN i.item_id_map)
    IN  /\ user_internal_id < i.model.num_users
        /\ user_internal_id \in DOMAIN i.user_feature_tensor
        /\ ni <= i.model.num_items
        /\ ni <= Cardinality(DOMAIN i.item_feature_tensor)

\* np.argsort(-scores): every order of the indices by non-increasing score;
\* which of two equal scores comes first is the sort's choice.
ArgSorts(scores) ==
    LET n == Cardinality(DOMAIN scores)
    IN  {o \in [1..n -> DOMAIN scores] :
            /\ \A a, b \in 1..n : a # b => o[a] # o[b]
            /\ \A a \in 1..(n - 1) : scores[o[a]] >= scores[o[a + 1]]}

\* liked_items: the items the interactions argument gives the user with
\* weight == 1.
LikedItems(i, user_id, filter_liked, interactions) ==
    IF filter_liked /\ interactions # NoneArg
    THEN {i.item_id_map[x[2]] :
            x \in {y \in Range(The(interactions)) :
                     y[1] = user_id /\ y[3].num = 1 /\ y[2] \in DOMAIN i.item_id_map}}
    ELSE {}

\* if len(recommendations) >= top_n: break
ReachedTopN(recommendations, top_n) == Len(recommendations) >= top_n

\* The loop over the sorted indices from position k on.
RECURSIVE Collect(_, _, _, _, _, _, _, _)
Collect(i, scores, order, liked_items, filter_liked, top_n, k, recommendations) ==
    IF k > Len(order) THEN [ret |-> recommendations, error |-> NoError]
    ELSE LET idx == order[k]
         IN  IF ~filter_liked \/ idx \notin liked_items
             THEN IF idx \notin DOMAIN i.internal_to_item
                  THEN [ret |-> <<>>, error |-> KeyError]
                  ELSE LET appended ==
                               Append(recommendations,
                                      <<i.internal_to_item[idx], scores[idx]>>)
                       IN  IF ReachedTopN(appended, top_n)
                           THEN [ret |-> appended, error |-> NoError]
                           ELSE Collect(i, scores, order, liked_items, filter_liked,
                                        top_n, k + 1, appended)
             ELSE Collect(i, scores, order, liked_items, filter_liked, top_n, k + 1,
                          recommendations)

\* user_id in self.user_id_map
KnownUser(i, user_id) == user_id \in DOMAIN i.user_id_map

\* Faulty variant: model.eval() runs before the user is looked up.
UnknownUserEvalFirst(i) ==
    {[inst |-> [i EXCEPT !.model.training = FALSE], ret |-> <<>>, error |-> NoError]}

\* The unknown-user return: [] and nothing touched.
UnknownUser(i) == {[inst |-> i, ret |-> <<>>, error |-> NoError]}

\* recommend_for_user: every outcome the call can have. Without a model it
\* raises; an unknown user gets []; no item at all makes np.concatenate raise.
RecommendForUser(i, user_id, top_n, filter_liked, interactions) ==
    IF ~i.model.present
    THEN {[inst |-> i, ret |-> <<>>, error |-> ValueError]}
    ELSE IF ~KnownUser(i, user_id)
    THEN UnknownUser(i)
    ELSE LET user_internal_id == i.user_id_map[user_id]
             evald == [i EXCEPT !.model.training = FALSE]
         IN  IF DOMAIN i.item_id_map # {} /\ ~ScoringFits(i, user_internal_id)
             THEN {[inst |-> evald, ret |-> <<>>, error |-> IndexError]}
             ELSE IF DOMAIN i.item_id_map = {}
             THEN {[inst |-> evald, ret |-> <<>>, error |-> ValueError]}
             ELSE LET scores == Scores(i, user_internal_id)
                      liked_items == LikedItems(i, user_id, filter_liked, interactions)
                  IN  {[inst |-> evald, ret |-> c.ret, error |-> c.error] :
                          c \in {Collect(i, scores, o, liked_items, filter_liked, top_n,
                                         1, <<>>) : o \in ArgSorts(scores)}}

----------------------------------------------------------------------------
(* SupabaseModelStorage: the beacon_models table *)

Date(t) == t \div TicksPerDay
DayStart(t) == Date(t) * TicksPerDay

\* user_id or "global"
StorageKey(user_id) == IF user_id = NoneId THEN "global" ELSE user_id

\* Encodings: each wraps its payload, the matching decoder unwraps it.
B64Encode(x) == [fmt |-> "b64", obj |-> x]
B64Decode(x) == x.obj
PickleDumps(x) == [fmt |-> "pickle", obj |-> x]
PickleLoads(x) == x.obj
TorchSave(x) == [fmt |-> "torch", obj |-> x]
TorchLoad(x) == x.obj

\* A save_model that skips the lookup of today's row and inserts every time.
SaveModelAlwaysInsert(tbl, nid, t, user_id, model_data, mappings_data, features_data, metadata, data_fingerprint) ==
    {[table |-> tbl \cup {[id |-> nid, created_at |-> t, user_id |-> StorageKey(user_id),
                            model_type |-> IF user_id = NoneId THEN "global" ELSE "user",
                            model_data |-> B64Encode(model_data),
                            mappings_data |-> B64Encode(mappings_data),
                            features_data |-> B64Encode(features_data),
                            metadata |-> metadata, data_fingerprint |-> data_fingerprint,
                            updated_at |-> t]},
      next_id |-> nid + 1, id |-> nid]}

\* save_model: a row of the owner created today is updated in place (its
\* created_at stays), otherwise a row is inserted with created_at = NOW().
\* With several rows of today, which one the query lists first is open.
SaveModel(tbl, nid, t, user_id, model_data, mappings_data, features_data, metadata, data_fingerprint) ==
    LET existing == {r \in tbl : r.user_id = StorageKey(user_id)
                                  /\ r.created_at >= DayStart(t)}
        data == [user_id |-> StorageKey(user_id),
                 model_type |-> IF user_id = NoneId THEN "global" ELSE "user",
                 model_data |-> B64Encode(model_data),
                 mappings_data |-> B64Encode(mappings_data),
                 features_data |-> B64Encode(features_data),
                 metadata |-> metadata,
                 data_fingerprint |-> data_fingerprint,
                 updated_at |-> t]
        Row(id, created_at) ==
            [id |-> id, created_at |-> created_at, user_id |-> data.user_id,
             model_type |-> data.model_type, model_data |-> data.model_data,
             mappings_data |-> data.mappings_data, features_data |-> data.features_data,
             metadata |-> data.metadata, data_fingerprint |-> data.data_fingerprint,
             updated_at |-> data.updated_at]
    IN  IF existing # {}
        THEN {[table |-> (tbl \ {r}) \cup {Row(r.id, r.created_at)}, next_id |-> nid,
               id |-> r.id] : r \in existing}
        ELSE {[table |-> tbl \cup {Row(nid, t)}, next_id |-> nid + 1, id |-> nid]}

\* The rows load_model's query selects before ordering: the owner's rows
\* created within the last max_age_days days.
LoadCandidates(tbl, t, user_id, max_age_days) ==
    {r \in tbl : r.user_id = StorageKey(user_id)
                 /\ r.created_at >= t - max_age_days * TicksPerDay}

\* load_model: the newest candidate, decoded; the empty set stands for None.
LoadModel(tbl, t, user_id, max_age_days) ==
    LET cands == LoadCandidates(tbl, t, user_id, max_age_days)
    IN  {[model_data |-> B64Decode(r.model_data),
          mappings_data |-> B64Decode(r.mappings_data),
          features_data |-> B64Decode(r.features_data),
          metadata |-> r.metadata,
          data_fingerprint |-> r.data_fingerprint,
          created_at |-> r.created_at] :
            r \in {c \in cands : \A o \in cands : o.created_at <= c.created_at}}

\* cleanup_old_models: every row created before the cutoff is deleted,
\* whoever owns it.
CleanupOldModels(tbl, t, days_to_keep) ==
    {r \in tbl : ~(r.created_at < t - days_to_keep * TicksPerDay)}

----------------------------------------------------------------------------
(* HuggingFaceBeaconAI: the freshness cache *)

\* Faulty variant: a stored model of an earlier day is accepted.
IsStaleNever(created_at, t) == FALSE

\* model_date < datetime.now().date()
IsStale(created_at, t) == Date(created_at) < Date(t)

\* needs_training: the answers the call can give.
NeedsTraining(i, tbl, t, d) ==
    LET stored == LoadModel(tbl, t, i.user_id, LoadMaxAgeDays)
    IN  IF stored = {} THEN {TRUE}
        ELSE {(s.data_fingerprint # Fingerprint(d)) \/ IsStale(s.created_at, t) :
                s \in stored}

\* CloudMatrixFactorizationModel.to_bytes
ToBytes(m, t) ==
    TorchSave([state_dict |-> [seed |-> m.seed, steps |-> m.steps],
               config |-> [num_users |-> m.num_users, num_items |-> m.num_items,
                           num_user_features |-> m.num_user_features,
                           num_item_features |-> m.num_item_features,
                           use_bias |-> m.use_bias],
               timestamp |-> t])

\* Faulty variant: the stored weights are not loaded into the new model.
LoadStateDictSkipped(m, state_dict) == m

\* load_state_dict
LoadStateDict(m, state_dict) ==
    [m EXCEPT !.seed = state_dict.seed, !.steps = state_dict.steps]

\* CloudMatrixFactorizationModel.from_bytes: a model built from the stored
\* configuration (initialised at random), then given the stored weights.
FromBytes(data_bytes, seed) ==
    LET save_dict == TorchLoad(data_bytes)
        c == save_dict.config
    IN  LoadStateDict(NewModel(c.num_users, c.num_items, c.num_user_features,
                               c.num_item_features, c.use_bias, seed),
                      save_dict.state_dict)

\* save_trained_model: the outcomes of the call.
SaveTrainedModel(i, tbl, nid, t) ==
    IF ~i.model.present
    THEN {[inst |-> i, table |-> tbl, next_id |-> nid, error |-> ValueError, id |-> 0]}
    ELSE LET mappings ==
                 [user_id_map |-> i.user_id_map, item_id_map |-> i.item_id_map,
                  user_feature_map |-> i.user_feature_map,
                  item_feature_map |-> i.item_feature_map,
                  internal_to_user |-> i.internal_to_user,
                  internal_to_item |-> i.internal_to_item]
             features ==
                 [user_feature_tensor |-> i.user_feature_tensor,
                  item_feature_tensor |-> i.item_feature_tensor,
                  user_features_raw |-> i.user_features_raw,
                  item_features_raw |-> i.item_features_raw]
             metadata ==
                 [use_bias |-> i.use_bias, user_id |-> i.user_id,
                  last_training_date |-> t]
         IN  {[inst |-> [i EXCEPT !.last_training_date = t], table |-> s.table,
               next_id |-> s.next_id, error |-> NoError, id |-> s.id] :
                s \in SaveModel(tbl, nid, t, i.user_id, ToBytes(i.model, t),
                                PickleDumps(mappings), TorchSave(features), metadata,
                                i.data_fingerprint)}

\* Faulty variant: the instance is emptied before the record is looked up.
LoadTrainedModelClearing(i, tbl, t, seed) ==
    LET stored == LoadModel(tbl, t, i.user_id, LoadMaxAgeDays)
    IN  IF stored = {}
        THEN {[inst |-> [i EXCEPT !.model = NoModel, !.user_id_map = EmptyMap,
                                  !.item_id_map = EmptyMap],
               ret |-> "", error |-> FileNotFoundError]}
        ELSE {LET mappings == PickleLoads(s.mappings_data)
                  features == TorchLoad(s.features_data)
              IN  [inst |->
                     [i EXCEPT
                        !.model = FromBytes(s.model_data, seed),
                        !.user_id_map = mappings.user_id_map,
                        !.item_id_map = mappings.item_id_map,
                        !.user_feature_map = mappings.user_feature_map,
                        !.item_feature_map = mappings.item_feature_map,
                        !.internal_to_user = mappings.internal_to_user,
                        !.internal_to_item = mappings.internal_to_item,
                        !.user_feature_tensor = features.user_feature_tensor,
                        !.item_feature_tensor = features.item_feature_tensor,
                        !.user_features_raw = features.user_features_raw,
                        !.item_features_raw = features.item_features_raw,
                        !.data_fingerprint = s.data_fingerprint,
                        !.last_training_date = s.metadata.last_training_date],
                   ret |-> "loaded", error |-> NoError] :
                s \in stored}

\* load_trained_model: the outcomes of the call; seed is the random
\* initialisation of the model from_bytes constructs.
LoadTrainedModel(i, tbl, t, seed) ==
    LET stored == LoadModel(tbl, t, i.user_id, LoadMaxAgeDays)
    IN  IF stored = {}
        THEN {[inst |-> i, ret |-> "", error |-> FileNotFoundError]}
        ELSE {LET mappings == PickleLoads(s.mappings_data)
                  features == TorchLoad(s.features_data)
              IN  [inst |->
                     [i EXCEPT
                        !.model = FromBytes(s.model_data, seed),
                        !.user_id_map = mappings.user_id_map,
                        !.item_id_map = mappings.item_id_map,
                        !.user_feature_map = mappings.user_feature_map,
                        !.item_feature_map = mappings.item_feature_map,
                        !.internal_to_user = mappings.internal_to_user,
                        !.internal_to_item = mappings.internal_to_item,
                        !.user_feature_tensor = features.user_feature_tensor,
                        !.item_feature_tensor = features.item_feature_tensor,
                        !.user_features_raw = features.user_features_raw,
                        !.item_features_raw = features.item_features_raw,
                        !.data_fingerprint = s.data_fingerprint,
                        !.last_training_date = s.metadata.last_training_date],
                   ret |-> "loaded", error |-> NoError] :
                s \in stored}

\* fit_and_train: fit_data, train_model, save_trained_model; an exception of
\* one step ends the call with what the steps before it have changed.
FitAndTrain(i, tbl, nid, t, d, p, losses, seed, ufm, ifm) ==
    LET f == FitData(i, d, seed, ufm, ifm)
        tr == TrainModel(f.inst, p, losses)
    IN  IF f.error # NoError
        THEN {[inst |-> f.inst, table |-> tbl, next_id |-> nid, ret |-> "",
               error |-> f.error, ran |-> <<"fit_data">>, id |-> 0]}
        ELSE IF tr.error # NoError
        THEN {[inst |-> tr.inst, table |-> tbl, next_id |-> nid, ret |-> "",
               error |-> tr.error, ran |-> <<"fit_data", "train_model">>, id |-> 0]}
        ELSE {[inst |-> s.inst, table |-> s.table, next_id |-> s.next_id,
               ret |-> IF s.error = NoError THEN "trained" ELSE "",
               error |-> s.error,
               ran |-> <<"fit_data", "train_model", "save_trained_model">>,
               id |-> s.id] :
                s \in SaveTrainedModel(tr.inst, tbl, nid, t)}

\* Faulty variant: force_retrain is ignored.
MustTrainIgnoringForce(force_retrain, needs_training) == needs_training

\* force_retrain or self.needs_training(...)
MustTrain(force_retrain, needs_training) == force_retrain \/ needs_training

\* load_or_train: the outcomes of the call.
LoadOrTrain(i, tbl, nid, t, d, force_retrain, p, losses, seed, ufm, ifm) ==
    UNION {IF MustTrain(force_retrain, need)
           THEN FitAndTrain(i, tbl, nid, t, d, p, losses, seed, ufm, ifm)
           ELSE {[inst |-> l.inst, table |-> tbl, next_id |-> nid, ret |-> l.ret,
                  error |-> l.error, ran |-> <<"load_trained_model">>, id |-> 0] :
                   l \in LoadTrainedModel(i, tbl, t, seed)} :
             need \in NeedsTraining(i, tbl, t, d)}

----------------------------------------------------------------------------
(* Values shared by the specifications *)

\* The owners requests name: None (the global model) and one user.
Owners == {NoneId, "u1"}
OwnerKeys == {StorageKey(o) : o \in Owners}

\* beacon_cache as get_beacon_ai fills it: an instance per key, constructed
\* on first use.
FreshCache == [k \in OwnerKeys |-> NewInstance(CHOOSE o \in Owners : StorageKey(o) = k)]

NoCall == [op |-> "none"]
NothingSaved == [k \in OwnerKeys |-> [has |-> FALSE]]
NoFingerprints == [done |-> FALSE]
NoRuns == [pc |-> "none"]
NoLife == [k \in OwnerKeys |-> "new"]

SeqsUpTo(S, n) == UNION {[1..k -> S] : k \in 0..n}

----------------------------------------------------------------------------
(* Specification SpecFP: _compute_data_fingerprint on two orderings of one
   input *)

FPUserFeatures == {<<>>, <<<<"u1", <<"a", "b">>>>, <<"u2", <<"a">>>>>>}
FPEventFeatures == {<<>>, <<<<"i1", <<"c">>>>, <<"i1", <<>>>>>>}
FPEvents == {<<"i1">>, <<"i2", "i1">>}
FPTriples ==
    {<<"u1", "i1", PyInt(1)>>, <<"u1", "i1", PyFloat(1)>>, <<"u2", "i1", PyFloat(2)>>}

FPInputs ==
    {[users |-> u, events |-> e, user_features |-> uf, event_features |-> ef,
      interactions |-> x] :
        u \in SeqsUpTo({"u1", "u2"}, MaxLen), e \in FPEvents, uf \in FPUserFeatures,
        ef \in FPEventFeatures, x \in SeqsUpTo(FPTriples, MaxLen)}

FPFields == {"users", "events", "user_features", "event_features", "interactions"}

\* The list with its items k and k+1 exchanged.
Swap(s, k) == [j \in 1..Len(s) |-> IF j = k THEN s[k + 1] ELSE IF j = k + 1 THEN s[k] ELSE s[j]]

InitFP ==
    /\ fpin \in {[a |-> d, b |-> d, ha |-> <<>>, hb |-> <<>>, done |-> FALSE] :
                    d \in FPInputs}
    /\ now = 0 /\ table = {} /\ next_id = 1 /\ inst = FreshCache
    /\ call = NoCall /\ saved = NothingSaved /\ req = NoRuns /\ runs = 0 /\ life = NoLife

\* The caller hands over the same items in another order.
Reorder ==
    /\ ~fpin.done
    /\ \E f \in FPFields : \E k \in 1..(Len(fpin.b[f]) - 1) :
          /\ fpin.b[f][k] # fpin.b[f][k + 1]
          /\ fpin' = [fpin EXCEPT !.b[f] = Swap(@, k)]
    /\ UNCHANGED <<now, table, next_id, inst, call, saved, req, runs, life>>

ComputeFingerprints ==
    /\ ~fpin.done
    /\ fpin' = [fpin EXCEPT !.ha = Fingerprint(fpin.a), !.hb = Fingerprint(fpin.b),
                            !.done = TRUE]
    /\ UNCHANGED <<now, table, next_id, inst, call, saved, req, runs, life>>

NextFP == Reorder \/ ComputeFingerprints

SpecFP == InitFP /\ [][NextFP]_vars

\* C4: two orderings of the same users, events, feature tuples and
\* interaction triples have the same fingerprint.
FingerprintPermutationInvariant == fpin.done => fpin.ha = fpin.hb

\* C4, restricted to inputs in which no two items compare equal and print
\* differently: for these the sort fixes the order, and the claim holds.
FingerprintInvariantOnDistinctKeys ==
    (fpin.done /\ \A x, y \in Range(fpin.a.interactions) :
                      KeyInteraction(x) = KeyInteraction(y) => x = y)
        => fpin.ha = fpin.hb

FingerprintComputedOnReordered == fpin.done /\ fpin.a # fpin.b

----------------------------------------------------------------------------
(* Hyperparameters and seeds *)

WellFormed(d) ==
    /\ \A j, k \in 1..Len(d.users) : d.users[j] = d.users[k] => j = k
    /\ \A j, k \in 1..Len(d.events) : d.events[j] = d.events[k] => j = k

\* **training_params over the defaults of fit_and_train.
TrainingParams ==
    [epochs : 1..MaxEpochs, batch_size : {DefaultBatchSize},
     negative_sampling_ratio : {1}, use_early_stopping : {TRUE},
     patience : {1, DefaultPatience}]

\* The mean loss of each epoch that has batches.
Losses == [1..MaxEpochs -> 1..2]

Seeds == 0..MaxSeed

----------------------------------------------------------------------------
(* Specification Spec: the freshness cache over the model table, calls made
   one after another *)

\* The inputs the cache is trained on, and those it is asked about.
CacheData == {DataExample, DataTagged}
QueryData == CacheData \cup {DataExampleReordered}

KeepDays == 0..MaxKeepDays

Init ==
    /\ now = 0 /\ table = {} /\ next_id = 1 /\ inst = FreshCache
    /\ call = NoCall /\ saved = NothingSaved
    /\ fpin = NoFingerprints /\ req = NoRuns /\ runs = 0 /\ life = NoLife

\* The clock advances.
Tick ==
    /\ now < MaxTime
    /\ now' = now + 1
    /\ call' = [op |-> "tick"]
    /\ UNCHANGED <<table, next_id, inst, saved, fpin, req, runs, life>>

\* The process restarts: beacon_cache starts out empty again.
Restart ==
    /\ inst # FreshCache
    /\ inst' = FreshCache
    /\ call' = [op |-> "restart"]
    /\ life' = NoLife
    /\ UNCHANGED <<now, table, next_id, saved, fpin, req, runs>>

CallNeedsTraining ==
    \E o \in Owners, d \in QueryData :
        \E r \in NeedsTraining(inst[StorageKey(o)], table, now, d) :
            /\ call' = [op |-> "needs_training", owner |-> o, data |-> d, ret |-> r]
            /\ UNCHANGED <<now, table, next_id, inst, saved, fpin, req, runs, life>>

\* The hyperparameters fit_and_train uses when the caller gives none, with
\* the number of epochs cut to the bound.
DefaultParams ==
    [epochs |-> MaxEpochs, batch_size |-> DefaultBatchSize, negative_sampling_ratio |-> 1,
     use_early_stopping |-> TRUE, patience |-> DefaultPatience]

DefaultLosses == [e \in 1..MaxEpochs |-> 1]

\* The last of fit_data, train_model and load_trained_model that returned,
\* after a load_or_train that ran the calls `ran` and ended with `error`.
LifeAfter(old, ran, error) ==
    LET returned == IF error = NoError THEN ran ELSE SubSeq(ran, 1, Len(ran) - 1)
        counted == SelectSeq(returned, LAMBDA c : c # "save_trained_model")
    IN  IF counted = <<>> THEN old ELSE counted[Len(counted)]

CallLoadOrTrain ==
    \E o \in Owners, d \in CacheData :
        LET k == StorageKey(o)
            need == NeedsTraining(inst[k], table, now, d)
        IN  \E force_retrain \in BOOLEAN, seed \in {TrainSeed},
               ufm \in FeatureMaps(FeatureTags(d.user_features)),
               ifm \in FeatureMaps(FeatureTags(d.event_features)) :
                \E r \in LoadOrTrain(inst[k], table, next_id, now, d, force_retrain,
                                     DefaultParams, DefaultLosses, seed, ufm, ifm) :
                    /\ r.ran[1] = "fit_data" => runs < MaxRuns
                    /\ runs' = IF r.ran[1] = "fit_data" THEN runs + 1 ELSE runs
                    /\ inst' = [inst EXCEPT ![k] = r.inst]
                    /\ table' = r.table
                    /\ next_id' = r.next_id
                    /\ saved' = IF r.ret = "trained"
                                THEN [saved EXCEPT ![k] = [has |-> TRUE, inst |-> r.inst,
                                                           id |-> r.id, at |-> now]]
                                ELSE saved
                    /\ call' = [op |-> "load_or_train", owner |-> o, data |-> d,
                                force_retrain |-> force_retrain, need |-> need,
                                ret |-> r.ret, error |-> r.error, ran |-> r.ran]
                    /\ life' = [life EXCEPT ![k] = LifeAfter(@, r.ran, r.error)]
                    /\ UNCHANGED <<now, fpin, req>>

CallLoadTrainedModel ==
    \E o \in Owners, seed \in Seeds :
        LET k == StorageKey(o)
        IN  \E r \in LoadTrainedModel(inst[k], table, now, seed) :
                /\ inst' = [inst EXCEPT ![k] = r.inst]
                /\ call' = [op |-> "load_trained_model", owner |-> o, ret |-> r.ret,
                            error |-> r.error, fresh |-> inst[k] = NewInstance(o)]
                /\ life' = IF r.error = NoError THEN [life EXCEPT ![k] = "load_trained_model"]
                           ELSE life
                /\ UNCHANGED <<now, table, next_id, saved, fpin, req, runs>>

CallCleanupOldModels ==
    \E days_to_keep \in KeepDays :
        /\ table' = CleanupOldModels(table, now, days_to_keep)
        /\ call' = [op |-> "cleanup_old_models", days_to_keep |-> days_to_keep,
                    pre_table |-> table]
        /\ UNCHANGED <<now, next_id, inst, saved, fpin, req, runs, life>>

Next ==
    \/ Tick
    \/ Restart
    \/ CallNeedsTraining
    \/ CallLoadOrTrain
    \/ CallLoadTrainedModel
    \/ CallCleanupOldModels

Spec == Init /\ [][Next]_vars

----------------------------------------------------------------------------
(* Properties of the freshness cache, checked under Spec *)

\* A record of the owner that carries the fingerprint of d and was created on
\* the current calendar day.
FreshRecordExists(o, d) ==
    \E r \in table : /\ r.user_id = StorageKey(o)
                     /\ r.data_fingerprint = FingerprintOf(d)
                     /\ Date(r.created_at) = Date(now)

\* C1: needs_training answers false exactly when the owner has a record with
\* the fingerprint of the inputs created on the current day, and true in
\* every other case.
NeedsTrainingPolicy ==
    call.op = "needs_training" =>
        (call.ret = FALSE <=> FreshRecordExists(call.owner, call.data))

\* needs_training has answered true although the owner's newest record
\* carries the inputs' fingerprint: the record is of the day before.
NeedsTrainingOnStaleRecord ==
    /\ call.op = "needs_training" /\ call.ret = TRUE
    /\ \E r \in table : /\ r.user_id = StorageKey(call.owner)
                        /\ r.data_fingerprint = FingerprintOf(call.data)
                        /\ Date(r.created_at) < Date(now)
                        /\ r.created_at >= now - LoadMaxAgeDays * TicksPerDay

\* needs_training has answered false for inputs given in another order than
\* the one the record was trained on.
NeedsTrainingFalseOnReordered ==
    /\ call.op = "needs_training" /\ call.ret = FALSE
    /\ call.data = DataExampleReordered

\* The weights and the shape of a model.
ModelParameters(m) ==
    [seed |-> m.seed, steps |-> m.steps, num_users |-> m.num_users,
     num_items |-> m.num_items, num_user_features |-> m.num_user_features,
     num_item_features |-> m.num_item_features, use_bias |-> m.use_bias]

\* What a snapshot consists of.
Snapshot(i) ==
    [user_id_map |-> i.user_id_map, item_id_map |-> i.item_id_map,
     internal_to_user |-> i.internal_to_user, internal_to_item |-> i.internal_to_item,
     user_feature_map |-> i.user_feature_map, item_feature_map |-> i.item_feature_map,
     user_feature_tensor |-> i.user_feature_tensor,
     item_feature_tensor |-> i.item_feature_tensor,
     parameters |-> ModelParameters(i.model),
     data_fingerprint |-> i.data_fingerprint]

\* The snapshot a row of the table holds.
StoredSnapshot(r) ==
    LET mappings == PickleLoads(B64Decode(r.mappings_data))
        features == TorchLoad(B64Decode(r.features_data))
        save_dict == TorchLoad(B64Decode(r.model_data))
    IN  [user_id_map |-> mappings.user_id_map, item_id_map |-> mappings.item_id_map,
         internal_to_user |-> mappings.internal_to_user,
         internal_to_item |-> mappings.internal_to_item,
         user_feature_map |-> mappings.user_feature_map,
         item_feature_map |-> mappings.item_feature_map,
         user_feature_tensor |-> features.user_feature_tensor,
         item_feature_tensor |-> features.item_feature_tensor,
         parameters |-> [seed |-> save_dict.state_dict.seed,
                         steps |-> save_dict.state_dict.steps,
                         num_users |-> save_dict.config.num_users,
                         num_items |-> save_dict.config.num_items,
                         num_user_features |-> save_dict.config.num_user_features,
                         num_item_features |-> save_dict.config.num_item_features,
                         use_bias |-> save_dict.config.use_bias],
         data_fingerprint |-> r.data_fingerprint]

\* C2: load_or_train returns "trained" after fit_data, train_model and
\* save_trained_model when force_retrain or needs_training holds, and
\* otherwise "loaded" after load_trained_model alone, the instance then
\* holding the owner's stored snapshot; it returns nothing else.
LoadOrTrainContract ==
    call.op = "load_or_train" =>
        LET k == StorageKey(call.owner)
        IN  /\ call.error = NoError
            /\ call.ret \in {"trained", "loaded"}
            /\ (call.force_retrain \/ call.need = {TRUE}) =>
                  /\ call.ret = "trained"
                  /\ call.ran = <<"fit_data", "train_model", "save_trained_model">>
                  /\ inst[k].data_fingerprint = FingerprintOf(call.data)
                  /\ \E r \in table : /\ r.user_id = k /\ r.updated_at = now
                                      /\ StoredSnapshot(r) = Snapshot(inst[k])
            /\ ~(call.force_retrain \/ call.need = {TRUE}) =>
                  /\ call.ret = "loaded"
                  /\ call.ran = <<"load_trained_model">>
                  /\ \E r \in table : /\ r.user_id = k
                                      /\ Date(r.created_at) = Date(now)
                                      /\ StoredSnapshot(r) = Snapshot(inst[k])

\* load_or_train has trained because it was forced, the stored model being
\* fresh.
ForcedRetrainOfFreshModel ==
    /\ call.op = "load_or_train" /\ call.force_retrain /\ call.need = {FALSE}
    /\ call.ret = "trained"

\* load_or_train has loaded.
LoadOrTrainLoaded == call.op = "load_or_train" /\ call.ret = "loaded"

\* C3: load_trained_model, called on the day of the owner's last save with
\* the saved record still in the table, restores the id maps, the reverse
\* maps, the feature vocabularies, the feature tensors, the model parameters
\* and the fingerprint the saving instance had.
RoundTrip ==
    LET k == StorageKey(call.owner)
    IN  (/\ call.op = "load_trained_model"
         /\ saved[k].has
         /\ Date(saved[k].at) = Date(now)
         /\ \E r \in table : r.id = saved[k].id)
        => /\ call.error = NoError
           /\ call.ret = "loaded"
           /\ Snapshot(inst[k]) = Snapshot(saved[k].inst)

\* A fresh instance has loaded, on the day of the save, a trained model with
\* feature vocabularies.
RoundTripOnFreshInstance ==
    LET k == StorageKey(call.owner)
    IN  /\ call.op = "load_trained_model" /\ call.fresh /\ call.error = NoError
        /\ saved[k].has /\ Date(saved[k].at) = Date(now)
        /\ inst[k].model.steps > 0
        /\ DOMAIN inst[k].user_feature_map # {}

\* C9: after cleanup_old_models every owner that had a record still has its
\* most recent one.
CleanupKeepsMostRecent ==
    call.op = "cleanup_old_models" =>
        \A k \in OwnerKeys :
            LET rows == {r \in call.pre_table : r.user_id = k}
            IN  rows # {} =>
                    \E r \in rows : /\ \A q \in rows : q.created_at <= r.created_at
                                    /\ r \in table

----------------------------------------------------------------------------
(* Specification SpecEngine: one instance (the global model) through its
   life: fit_data, train_model, save, load, recommend_for_user *)

EngineData == {DataWeighted, DataNoPositives, DataNoEvents}

EngineOwner == NoneId
EngineKey == StorageKey(EngineOwner)

\* The users recommendations are asked for: one the inputs know, one they
\* do not.
RecommendUsers == {"u1", "u9"}

\* The interactions argument of recommend_for_user: absent, or the triples
\* of one of the inputs.
RecommendInteractions ==
    {NoneArg, Some(DataWeighted.interactions), Some(DataNoPositives.interactions),
     Some(DataTagged.interactions)}

EngineFitData ==
    \E d \in EngineData, seed \in Seeds :
        \E ufm \in FeatureMaps(FeatureTags(d.user_features)),
           ifm \in FeatureMaps(FeatureTags(d.event_features)) :
            LET r == FitData(inst[EngineKey], d, seed, ufm, ifm)
            IN  /\ runs < MaxEngineCalls
                /\ runs' = runs + 1
                /\ inst' = [inst EXCEPT ![EngineKey] = r.inst]
                /\ call' = [op |-> "fit_data", data |-> d, error |-> r.error]
                /\ life' = IF r.error = NoError THEN [life EXCEPT ![EngineKey] = "fit_data"]
                           ELSE life
                /\ UNCHANGED <<now, table, next_id, saved, fpin, req>>

EngineTrainModel ==
    \E p \in TrainingParams, losses \in Losses :
        LET r == TrainModel(inst[EngineKey], p, losses)
        IN  /\ runs < MaxEngineCalls
            /\ runs' = runs + 1
            /\ inst' = [inst EXCEPT ![EngineKey] = r.inst]
            /\ call' = [op |-> "train_model", error |-> r.error,
                        epochs_run |-> r.epochs_run,
                        positives |-> Len(inst[EngineKey].interactions.entries),
                        pre_parameters |-> ModelParameters(inst[EngineKey].model)]
            /\ life' = IF r.error = NoError THEN [life EXCEPT ![EngineKey] = "train_model"]
                       ELSE life
            /\ UNCHANGED <<now, table, next_id, saved, fpin, req>>

EngineSaveTrainedModel ==
    \E r \in SaveTrainedModel(inst[EngineKey], table, next_id, now) :
        /\ runs < MaxEngineCalls
        /\ runs' = runs + 1
        /\ inst' = [inst EXCEPT ![EngineKey] = r.inst]
        /\ table' = r.table
        /\ next_id' = r.next_id
        /\ saved' = IF r.error = NoError
                    THEN [saved EXCEPT ![EngineKey] = [has |-> TRUE, inst |-> r.inst,
                                                       id |-> r.id, at |-> now]]
                    ELSE saved
        /\ call' = [op |-> "save_trained_model", error |-> r.error]
        /\ UNCHANGED <<now, fpin, req, life>>

EngineLoadTrainedModel ==
    \E seed \in Seeds :
        \E r \in LoadTrainedModel(inst[EngineKey], table, now, seed) :
            /\ inst' = [inst EXCEPT ![EngineKey] = r.inst]
            /\ call' = [op |-> "load_trained_model", owner |-> EngineOwner,
                        ret |-> r.ret, error |-> r.error,
                        fresh |-> inst[EngineKey] = NewInstance(EngineOwner)]
            /\ life' = IF r.error = NoError
                       THEN [life EXCEPT ![EngineKey] = "load_trained_model"]
                       ELSE life
            /\ UNCHANGED <<now, table, next_id, saved, fpin, req, runs>>

EngineRecommendForUser ==
    \E user_id \in RecommendUsers, top_n \in 0..MaxTopN, filter_liked \in BOOLEAN,
       interactions \in RecommendInteractions :
        \E r \in RecommendForUser(inst[EngineKey], user_id, top_n, filter_liked,
                                  interactions) :
            /\ inst' = [inst EXCEPT ![EngineKey] = r.inst]
            /\ call' = [op |-> "recommend_for_user", user_id |-> user_id,
                        top_n |-> top_n, filter_liked |-> filter_liked,
                        interactions |-> interactions, ret |-> r.ret,
                        error |-> r.error, changed |-> r.inst # inst[EngineKey]]
            /\ UNCHANGED <<now, table, next_id, saved, fpin, req, runs, life>>

NextEngine ==
    \/ Restart
    \/ EngineFitData
    \/ EngineTrainModel
    \/ EngineSaveTrainedModel
    \/ EngineLoadTrainedModel
    \/ EngineRecommendForUser

SpecEngine == Init /\ [][NextEngine]_vars

----------------------------------------------------------------------------
(* Properties of recommend_for_user and train_model, checked under
   SpecEngine *)

\* The items the interactions argument records the user as having
\* interacted with positively.
ExclusionSet(user_id, interactions) ==
    {x[2] : x \in {y \in Range(interactions) : y[1] = user_id /\ y[3].num > 0}}

ReturnedItems(ret) == {ret[k][1] : k \in 1..Len(ret)}

\* C5: with filter_liked and an interactions argument, no returned item is
\* one the argument records the user as having interacted with positively,
\* whatever the weight.
ExclusionInvariant ==
    (/\ call.op = "recommend_for_user" /\ call.error = NoError
     /\ call.filter_liked /\ call.interactions # NoneArg)
        => ReturnedItems(call.ret)
               \cap ExclusionSet(call.user_id, The(call.interactions)) = {}

\* The exclusion set of the last call.
CallExclusionSet ==
    IF call.filter_liked /\ call.interactions # NoneArg
    THEN ExclusionSet(call.user_id, The(call.interactions))
    ELSE {}

\* C6: for a known user, top_n >= 1 and an exclusion set within the fitted
\* items, at most min(top_n, items - excluded) items are returned.
CardinalityInvariant ==
    (/\ call.op = "recommend_for_user" /\ call.error = NoError
     /\ KnownUser(inst[EngineKey], call.user_id)
     /\ call.top_n >= 1
     /\ CallExclusionSet \subseteq DOMAIN inst[EngineKey].item_id_map)
        => Len(call.ret)
               <= Min2(call.top_n,
                       Cardinality(DOMAIN inst[EngineKey].item_id_map)
                           - Cardinality(CallExclusionSet))

UnknownUserOnLoadedModel ==
    /\ call.op = "recommend_for_user"
    /\ ~KnownUser(inst[EngineKey], call.user_id)
    /\ life[EngineKey] = "load_trained_model"

\* C8: train_model on a fitted model without positives returns without
\* raising and leaves the parameters as they were, and recommend_for_user
\* for a known user returns a result afterwards.
EmptyPositivesNoOp ==
    /\ (/\ call.op = "train_model" /\ call.positives = 0
        /\ life[EngineKey] \in {"fit_data", "train_model"}
        /\ inst[EngineKey].interactions.present)
          => /\ call.error = NoError
             /\ ModelParameters(inst[EngineKey].model) = call.pre_parameters
    /\ (/\ call.op = "recommend_for_user"
        /\ life[EngineKey] = "train_model"
        /\ inst[EngineKey].interactions.entries = <<>>
        /\ KnownUser(inst[EngineKey], call.user_id))
          => call.error = NoError

\* C8 for inputs that have events: train_model without positives is a no-op
\* and recommend_for_user for a known user returns a result afterwards.
EmptyPositivesNoOpWithEvents ==
    /\ (/\ call.op = "train_model" /\ call.positives = 0
        /\ inst[EngineKey].interactions.present)
          => /\ call.error = NoError
             /\ ModelParameters(inst[EngineKey].model) = call.pre_parameters
    /\ (/\ call.op = "recommend_for_user"
        /\ life[EngineKey] = "train_model"
        /\ inst[EngineKey].interactions.entries = <<>>
        /\ KnownUser(inst[EngineKey], call.user_id)
        /\ DOMAIN inst[EngineKey].item_id_map # {})
          => call.error = NoError /\ call.ret # <<>>

TrainedOnEmptyPositives ==
    /\ call.op = "train_model" /\ call.positives = 0 /\ call.error = NoError
    /\ call.epochs_run > 0

----------------------------------------------------------------------------
(* Specification SpecHttp: POST /train of huggingface_spaces_api.py. The
   handlers run one at a time on the event loop; the training runs handed to
   an instance's executor run on its worker threads, beside the event loop
   and beside each other. A thread is switched between the calls it makes
   and, inside fit_data, between the statements that replace the maps and
   those that replace the matrix, the model and the fingerprint. *)

\* An input of LargeLen interaction triples, of which the model keeps these.
DataLarge ==
    [users |-> <<"u1", "u2">>, events |-> <<"i1", "i2">>,
     user_features |-> <<>>, event_features |-> <<>>,
     interactions |-> <<Triple("u2", "i1", PyFloat(1)), Triple("u1", "i2", PyFloat(1))>>]

\* The bodies of the requests: the data and len(interactions).
TrainBodies ==
    {[data |-> DataExample, len |-> Len(DataExample.interactions)],
     [data |-> DataLarge, len |-> LargeLen]}

\* len(interactions) * 0.1
EstimatedTimeMs(len) == len \div 10

Workers == 1..MaxWorkers

IdleThread == [pc |-> "idle"]

HttpIdle ==
    [loop |-> IdleThread,
     workers |-> [k \in OwnerKeys |-> [w \in Workers |-> IdleThread]],
     queue |-> [k \in OwnerKeys |-> <<>>]]

InitHttp ==
    /\ now = 0 /\ table = {} /\ next_id = 1 /\ inst = FreshCache
    /\ call = NoCall /\ saved = NothingSaved /\ fpin = NoFingerprints
    /\ req = HttpIdle /\ runs = 0 /\ life = NoLife

\* POST /train up to the point where the handler returns or enters
\* fit_and_train.
HttpTrain ==
    \E o \in Owners, body \in TrainBodies, force_retrain \in BOOLEAN, seed \in Seeds :
        LET k == StorageKey(o)
            d == body.data
        IN  /\ req.loop.pc = "idle"
            /\ runs < MaxRuns
            /\ runs' = runs + 1
            /\ \E needs_training \in NeedsTraining(inst[k], table, now, d) :
                 IF needs_training \/ force_retrain
                 THEN IF EstimatedTimeMs(body.len) < ForegroundLimitMs
                      THEN /\ req' = [req EXCEPT !.loop = [pc |-> "fit_data", owner |-> o,
                                                           data |-> d]]
                           /\ call' = [op |-> "train", owner |-> o, status |-> "running"]
                           /\ UNCHANGED <<inst, life>>
                      ELSE /\ req' = [req EXCEPT !.queue[k] = Append(@, d)]
                           /\ call' = [op |-> "train", owner |-> o, status |-> "scheduled"]
                           /\ UNCHANGED <<inst, life>>
                 ELSE \E r \in LoadTrainedModel(inst[k], table, now, seed) :
                          /\ inst' = [inst EXCEPT ![k] = r.inst]
                          /\ call' = [op |-> "train", owner |-> o,
                                      status |-> IF r.error = NoError THEN r.ret ELSE "500"]
                          /\ life' = IF r.error = NoError
                                     THEN [life EXCEPT ![k] = "load_trained_model"]
                                     ELSE life
                          /\ UNCHANGED req
            /\ UNCHANGED <<now, table, next_id, saved, fpin>>

\* The inputs of the requests.
HttpData == {b.data : b \in TrainBodies}

\* The maps, the tensors, the model and the fingerprint of an instance or of
\* a stored snapshot are those one fit_data of one of the inputs produces.
OfOneFit(snap) ==
    \E d \in HttpData :
        /\ snap.user_id_map = IdMap(d.users)
        /\ snap.item_id_map = IdMap(d.events)
        /\ snap.internal_to_user = ReverseMap(IdMap(d.users))
        /\ snap.internal_to_item = ReverseMap(IdMap(d.events))
        /\ DOMAIN snap.user_feature_tensor = 0..(Len(d.users) - 1)
        /\ DOMAIN snap.item_feature_tensor = 0..(Len(d.events) - 1)
        /\ snap.parameters.num_users = Len(d.users)
        /\ snap.parameters.num_items = Len(d.events)
        /\ snap.data_fingerprint = Fingerprint(d)

\* POST /recommend: the model is loaded if the instance has none, then
\* recommend_for_user reads the instance. Every exception, the 404 of a
\* missing model included, leaves the handler as a 500.
HttpRecommend ==
    \E o \in Owners, seed \in {TrainSeed} :
        LET k == StorageKey(o)
            loaded == IF inst[k].model.present
                      THEN {[inst |-> inst[k], ret |-> "", error |-> NoError]}
                      ELSE LoadTrainedModel(inst[k], table, now, seed)
        IN  /\ req.loop.pc = "idle"
            /\ \E l \in loaded :
                  IF l.error # NoError
                  THEN /\ inst' = [inst EXCEPT ![k] = l.inst]
                       /\ call' = [op |-> "recommend", owner |-> o, status |-> "500",
                                   read |-> FALSE]
                       /\ life' = life
                  ELSE \E r \in RecommendForUser(l.inst, "u1", MaxTopN, FALSE, NoneArg) :
                         /\ inst' = [inst EXCEPT ![k] = r.inst]
                         /\ call' = [op |-> "recommend", owner |-> o,
                                     status |-> IF r.error = NoError THEN "200" ELSE "500",
                                     read |-> TRUE,
                                     of_one_fit |-> OfOneFit(Snapshot(l.inst)),
                                     completed |->
                                         IF inst[k].model.present
                                         THEN life[k] \in {"train_model",
                                                           "load_trained_model"}
                                         ELSE TRUE,
                                     in_flight |->
                                         \E w \in Workers : req.workers[k][w].pc # "idle"]
                         /\ life' = IF inst[k].model.present THEN life
                                    ELSE [life EXCEPT ![k] = "load_trained_model"]
            /\ UNCHANGED <<now, table, next_id, saved, fpin, req, runs>>

\* The foreground run: fit_data, the maps and the feature tensors.
LoopFitDataMappings ==
    /\ req.loop.pc = "fit_data"
    /\ LET k == StorageKey(req.loop.owner)
           d == req.loop.data
       IN  \E ufm \in FeatureMaps(FeatureTags(d.user_features)),
              ifm \in FeatureMaps(FeatureTags(d.event_features)) :
               /\ inst' = [inst EXCEPT ![k] = FitDataMappings(@, d, ufm, ifm)]
               /\ req' = [req EXCEPT !.loop.pc = "fit_data_model"]
               /\ call' = [op |-> "fit_data_mappings", owner |-> req.loop.owner]
    /\ UNCHANGED <<now, table, next_id, saved, fpin, runs, life>>

\* The foreground run: fit_data, the matrix, the model and the fingerprint.
LoopFitData ==
    /\ req.loop.pc = "fit_data_model"
    /\ LET k == StorageKey(req.loop.owner)
           d == req.loop.data
       IN      LET r == FitDataModel(inst[k], d, TrainSeed)
               IN  /\ inst' = [inst EXCEPT ![k] = r.inst]
                   /\ req' = [req EXCEPT !.loop = IF r.error = NoError
                                                  THEN [@ EXCEPT !.pc = "train_model"]
                                                  ELSE IdleThread]
                   /\ call' = [op |-> "fit_data", owner |-> req.loop.owner,
                               error |-> r.error]
                   /\ life' = IF r.error = NoError THEN [life EXCEPT ![k] = "fit_data"]
                              ELSE life
    /\ UNCHANGED <<now, table, next_id, saved, fpin, runs>>

\* The foreground run: train_model.
LoopTrainModel ==
    /\ req.loop.pc = "train_model"
    /\ LET k == StorageKey(req.loop.owner)
           r == TrainModel(inst[k], DefaultParams, DefaultLosses)
       IN  /\ inst' = [inst EXCEPT ![k] = r.inst]
           /\ req' = [req EXCEPT !.loop = IF r.error = NoError
                                          THEN [@ EXCEPT !.pc = "save_trained_model"]
                                          ELSE IdleThread]
           /\ call' = [op |-> "train_model", owner |-> req.loop.owner, error |-> r.error]
           /\ life' = IF r.error = NoError THEN [life EXCEPT ![k] = "train_model"]
                      ELSE life
    /\ UNCHANGED <<now, table, next_id, saved, fpin, runs>>

\* The foreground run: save_trained_model, and the handler's response.
LoopSaveTrainedModel ==
    /\ req.loop.pc = "save_trained_model"
    /\ LET k == StorageKey(req.loop.owner)
       IN  \E r \in SaveTrainedModel(inst[k], table, next_id, now) :
               /\ inst' = [inst EXCEPT ![k] = r.inst]
               /\ table' = r.table
               /\ next_id' = r.next_id
               /\ saved' = IF r.error = NoError
                           THEN [saved EXCEPT ![k] = [has |-> TRUE, inst |-> r.inst,
                                                      id |-> r.id, at |-> now]]
                           ELSE saved
               /\ call' = [op |-> "train", owner |-> req.loop.owner,
                           status |-> IF r.error = NoError THEN "trained" ELSE "500"]
    /\ req' = [req EXCEPT !.loop = IdleThread]
    /\ UNCHANGED <<now, fpin, runs, life>>

\* An idle worker of the instance's executor takes the next queued run.
WorkerTake ==
    \E k \in OwnerKeys, w \in Workers :
        /\ req.workers[k][w].pc = "idle"
        /\ req.queue[k] # <<>>
        /\ req' = [req EXCEPT !.workers[k][w] = [pc |-> "fit_data",
                                                 data |-> Head(req.queue[k])],
                              !.queue[k] = Tail(@)]
        /\ call' = [op |-> "worker", owner |-> k]
        /\ UNCHANGED <<now, table, next_id, inst, saved, fpin, runs, life>>

\* A background run: fit_data, the maps and the feature tensors.
WorkerFitDataMappings ==
    \E k \in OwnerKeys, w \in Workers :
        /\ req.workers[k][w].pc = "fit_data"
        /\ LET d == req.workers[k][w].data
           IN  \E ufm \in FeatureMaps(FeatureTags(d.user_features)),
                  ifm \in FeatureMaps(FeatureTags(d.event_features)) :
                   /\ inst' = [inst EXCEPT ![k] = FitDataMappings(@, d, ufm, ifm)]
                   /\ req' = [req EXCEPT !.workers[k][w].pc = "fit_data_model"]
                   /\ call' = [op |-> "fit_data_mappings", owner |-> k]
        /\ UNCHANGED <<now, table, next_id, saved, fpin, runs, life>>

\* A background run: fit_data, the matrix, the model and the fingerprint.
WorkerFitData ==
    \E k \in OwnerKeys, w \in Workers :
        /\ req.workers[k][w].pc = "fit_data_model"
        /\ LET d == req.workers[k][w].data
           IN      LET r == FitDataModel(inst[k], d, TrainSeed)
                   IN  /\ inst' = [inst EXCEPT ![k] = r.inst]
                       /\ req' = [req EXCEPT !.workers[k][w] =
                                      IF r.error = NoError
                                      THEN [@ EXCEPT !.pc = "train_model"]
                                      ELSE IdleThread]
                       /\ call' = [op |-> "fit_data", owner |-> k, error |-> r.error]
                       /\ life' = IF r.error = NoError
                                  THEN [life EXCEPT ![k] = "fit_data"]
                                  ELSE life
        /\ UNCHANGED <<now, table, next_id, saved, fpin, runs>>

\* A background run: train_model. The handler has passed force_retrain on
\* with the training parameters, train_model takes no such argument, the
\* call raises TypeError and the run ends there.
WorkerTrainModel ==
    \E k \in OwnerKeys, w \in Workers :
        /\ req.workers[k][w].pc = "train_model"
        /\ req' = [req EXCEPT !.workers[k][w] = IdleThread]
        /\ call' = [op |-> "train_model", owner |-> k, error |-> "TypeError"]
        /\ UNCHANGED <<now, table, next_id, inst, saved, fpin, runs, life>>

NextHttp ==
    \/ HttpTrain
    \/ HttpRecommend
    \/ LoopFitDataMappings
    \/ LoopFitData
    \/ LoopTrainModel
    \/ LoopSaveTrainedModel
    \/ WorkerTake
    \/ WorkerFitDataMappings
    \/ WorkerFitData
    \/ WorkerTrainModel

SpecHttp == InitHttp /\ [][NextHttp]_vars

\* The same, every thread that can take a step eventually taking it: the
\* executor's workers run what was submitted to them, and a handler that
\* has entered fit_and_train runs it through.
SpecHttpFair ==
    /\ SpecHttp
    /\ WF_vars(WorkerTake) /\ WF_vars(WorkerFitDataMappings) /\ WF_vars(WorkerFitData)
    /\ WF_vars(WorkerTrainModel)
    /\ WF_vars(LoopFitDataMappings) /\ WF_vars(LoopFitData) /\ WF_vars(LoopTrainModel)
    /\ WF_vars(LoopSaveTrainedModel)

\* The threads on which a fit_and_train for the owner key is running.
InFlight(k) ==
    (IF req.loop.pc # "idle" /\ StorageKey(req.loop.owner) = k THEN {0} ELSE {})
        \cup {w \in Workers : req.workers[k][w].pc # "idle"}

\* C10: no two training runs for one owner key are in flight at a time.
SingleFlightTraining == \A k \in OwnerKeys : Cardinality(InFlight(k)) <= 1

\* C11: every record of the table is a snapshot whose maps, feature tensors,
\* model and fingerprint come from one fit_data: never the maps of one run
\* with the model or the fingerprint of another.
CacheNotCorrupted == \A r \in table : OfOneFit(StoredSnapshot(r))

\* A record has been saved by a foreground run while a background run for
\* the same owner was in flight or had run.
SavedBesideBackgroundRun ==
    /\ call.op = "train" /\ call.status = "trained"
    /\ table # {}

\* C12: whenever recommend_for_user reads the instance, its maps, tensors
\* and model are those of one fit_data, a train_model or a
\* load_trained_model has completed on them, and no training run is at work
\* on the instance.
SnapshotNeverHalfReplaced ==
    (call.op = "recommend" /\ call.read)
        => call.of_one_fit /\ call.completed /\ ~call.in_flight

\* C20: a /train request answered "scheduled" is eventually followed by a
\* record of its owner that carries the fingerprint of the submitted data.
BackgroundTrainingCompletes ==
    \A o \in Owners :
        (call = [op |-> "train", owner |-> o, status |-> "scheduled"])
            ~> (\E r \in table : /\ r.user_id = StorageKey(o)
                                 /\ r.data_fingerprint = Fingerprint(DataLarge))

\* Every background run ends: a worker that took a run becomes idle again.
BackgroundRunEnds ==
    \A k \in OwnerKeys, w \in Workers :
        (req.workers[k][w].pc # "idle") ~> (req.workers[k][w].pc = "idle")

\* No background run reaches save_trained_model.
BackgroundRunNeverSaves ==
    \A k \in OwnerKeys, w \in Workers :
        req.workers[k][w].pc \in {"idle", "fit_data", "fit_data_model", "train_model"}

\* recommend_for_user has read an instance that no run was at work on.
RecommendOnQuietInstance ==
    /\ call.op = "recommend" /\ call.read /\ call.status = "200"
    /\ call.of_one_fit /\ call.completed /\ ~call.in_flight

----------------------------------------------------------------------------
(* Specification SpecLife: the life cycle of one instance (the global
   model), every call recorded with the instance it found *)

MaxLifeCalls == 4

\* Ids given twice: the second "u1" takes index 1 of a one-row matrix.
DataDuplicate ==
    [users |-> <<"u1", "u1">>, events |-> <<"i1">>, user_features |-> <<>>,
     event_features |-> <<>>,
     interactions |-> <<Triple("u1", "i1", PyFloat(1))>>]

LifeData == {DataWeighted, DataNoPositives, DataDuplicate}

\* train_model(batch_size=...) with the other hyperparameters at one value.
LifeParams ==
    [epochs : {1}, batch_size : {0, DefaultBatchSize}, negative_sampling_ratio : {1},
     use_early_stopping : {TRUE}, patience : {DefaultPatience}]

\* What has happened to the instance since it was constructed: a fit_data
\* has returned; and how far the calls are in recovering from a missing
\* record: the last call was a load_trained_model that found none
\* ("notfound"), or the fit_data that followed it and returned ("refitted").
NewHistory == [fitted |-> FALSE, recovery |-> "none"]

InitLife ==
    /\ now = 0 /\ table = {} /\ next_id = 1 /\ inst = FreshCache
    /\ call = NoCall /\ saved = NothingSaved /\ fpin = NoFingerprints
    /\ req = NewHistory /\ runs = 0 /\ life = NoLife

\* The process restarts: the instance is constructed anew.
LifeRestart ==
    /\ inst # FreshCache
    /\ inst' = FreshCache
    /\ call' = [op |-> "restart"]
    /\ life' = NoLife
    /\ req' = NewHistory
    /\ UNCHANGED <<now, table, next_id, saved, fpin, runs>>

LifeFitData ==
    \E d \in LifeData, seed \in Seeds :
        \E ufm \in FeatureMaps(FeatureTags(d.user_features)),
           ifm \in FeatureMaps(FeatureTags(d.event_features)) :
            LET r == FitData(inst[EngineKey], d, seed, ufm, ifm)
            IN  /\ runs < MaxLifeCalls
                /\ runs' = runs + 1
                /\ inst' = [inst EXCEPT ![EngineKey] = r.inst]
                /\ call' = [op |-> "fit_data", data |-> d, seed |-> seed, ufm |-> ufm,
                            ifm |-> ifm, error |-> r.error, pre |-> inst[EngineKey],
                            pre_life |-> life[EngineKey], recovery |-> req.recovery]
                /\ life' = IF r.error = NoError THEN [life EXCEPT ![EngineKey] = "fit_data"]
                           ELSE life
                /\ req' = [fitted |-> req.fitted \/ r.error = NoError,
                            recovery |-> IF req.recovery = "notfound" /\ r.error = NoError
                                         THEN "refitted" ELSE "none"]
                /\ UNCHANGED <<now, table, next_id, saved, fpin>>

LifeTrainModel ==
    \E p \in LifeParams :
        LET r == TrainModel(inst[EngineKey], p, DefaultLosses)
        IN  /\ runs < MaxLifeCalls
            /\ runs' = runs + 1
            /\ inst' = [inst EXCEPT ![EngineKey] = r.inst]
            /\ call' = [op |-> "train_model", batch_size |-> p.batch_size,
                        error |-> r.error, pre |-> inst[EngineKey],
                        pre_life |-> life[EngineKey], recovery |-> req.recovery]
            /\ life' = IF r.error = NoError THEN [life EXCEPT ![EngineKey] = "train_model"]
                       ELSE life
            /\ req' = [req EXCEPT !.recovery = "none"]
            /\ UNCHANGED <<now, table, next_id, saved, fpin>>

LifeSaveTrainedModel ==
    \E r \in SaveTrainedModel(inst[EngineKey], table, next_id, now) :
        /\ runs < MaxLifeCalls
        /\ runs' = runs + 1
        /\ inst' = [inst EXCEPT ![EngineKey] = r.inst]
        /\ table' = r.table
        /\ next_id' = r.next_id
        /\ saved' = IF r.error = NoError
                    THEN [saved EXCEPT ![EngineKey] = [has |-> TRUE, inst |-> r.inst,
                                                       id |-> r.id, at |-> now]]
                    ELSE saved
        /\ call' = [op |-> "save_trained_model", error |-> r.error,
                    pre |-> inst[EngineKey], pre_life |-> life[EngineKey],
                    pre_table |-> table]
        /\ req' = [req EXCEPT !.recovery = "none"]
        /\ UNCHANGED <<now, fpin, life>>

LifeLoadTrainedModel ==
    \E seed \in Seeds :
        \E r \in LoadTrainedModel(inst[EngineKey], table, now, seed) :
            /\ runs < MaxLifeCalls
            /\ runs' = runs + 1
            /\ inst' = [inst EXCEPT ![EngineKey] = r.inst]
            /\ call' = [op |-> "load_trained_model", ret |-> r.ret, error |-> r.error,
                        pre |-> inst[EngineKey], pre_life |-> life[EngineKey]]
            /\ life' = IF r.error = NoError
                       THEN [life EXCEPT ![EngineKey] = "load_trained_model"]
                       ELSE life
            /\ req' = [req EXCEPT !.recovery = IF r.error = FileNotFoundError
                                                THEN "notfound" ELSE "none"]
            /\ UNCHANGED <<now, table, next_id, saved, fpin>>

NextLife ==
    \/ LifeRestart
    \/ Tick
    \/ LifeFitData
    \/ LifeTrainModel
    \/ LifeSaveTrainedModel
    \/ LifeLoadTrainedModel

SpecLife == InitLife /\ [][NextLife]_vars


----------------------------------------------------------------------------
(* Properties of the life cycle, checked under SpecLife *)

\* C14: on an instance on which neither fit_data nor load_trained_model has
\* returned, train_model and save_trained_model raise ValueError and leave
\* the instance (and the table) as they were; and train_model returns only
\* on an instance on which a fit_data has returned before.
LifecycleGuard ==
    /\ (call.op \in {"train_model", "save_trained_model"} /\ call.pre_life = "new")
          => /\ call.error = ValueError
             /\ inst[EngineKey] = call.pre
             /\ call.op = "save_trained_model" => table = call.pre_table
    /\ (call.op = "train_model" /\ call.error = NoError)
          => /\ req.fitted
             /\ life[EngineKey] = "train_model"

\* train_model has been called on a newly constructed instance.
TrainModelOnUnfitted ==
    /\ call.op = "train_model" /\ call.pre_life = "new"
    /\ call.pre = NewInstance(EngineOwner)

\* save_trained_model has been called on an instance whose only fit_data
\* raised.
SaveOnUnfitted ==
    /\ call.op = "save_trained_model" /\ call.pre_life = "new"
    /\ DOMAIN call.pre.user_id_map # {}

\* C15: after a fit_data that returns, from whatever state, the id maps, the
\* reverse maps, the feature vocabularies, the per-entity features, the
\* feature tensors, the interaction matrix, the fingerprint and the model
\* are those of the call's inputs: nothing of an earlier fit, train or load
\* is left.
RefitIsFullReset ==
    (call.op = "fit_data" /\ call.error = NoError) =>
        LET i == inst[EngineKey]
            d == call.data
            nu == Cardinality(Range(d.users))
            ni == Cardinality(Range(d.events))
        IN  /\ DOMAIN i.user_id_map = Range(d.users)
            /\ DOMAIN i.item_id_map = Range(d.events)
            /\ \A k \in 1..Len(d.users) : i.user_id_map[d.users[k]] = k - 1
            /\ \A k \in 1..Len(d.events) : i.item_id_map[d.events[k]] = k - 1
            /\ \A k \in 1..Len(d.users) : i.internal_to_user[k - 1] = d.users[k]
            /\ \A k \in 1..Len(d.events) : i.internal_to_item[k - 1] = d.events[k]
            /\ DOMAIN i.internal_to_user = 0..(nu - 1)
            /\ DOMAIN i.internal_to_item = 0..(ni - 1)
            /\ i.user_feature_map = call.ufm
            /\ i.item_feature_map = call.ifm
            /\ DOMAIN i.user_feature_map = FeatureTags(d.user_features)
            /\ DOMAIN i.item_feature_map = FeatureTags(d.event_features)
            /\ \A k \in 1..Len(i.user_features_raw) :
                  \E f \in Range(d.user_features) :
                      i.user_id_map[f[1]] = i.user_features_raw[k][1]
            /\ \A k \in 1..Len(i.item_features_raw) :
                  \E f \in Range(d.event_features) :
                      i.item_id_map[f[1]] = i.item_features_raw[k][1]
            /\ i.user_feature_tensor = [u \in 0..(nu - 1) |-> 0]
            /\ i.item_feature_tensor = [e \in 0..(ni - 1) |-> 0]
            /\ i.interactions.present /\ i.interactions.shape = <<nu, ni>>
            /\ \A k \in 1..Len(i.interactions.entries) :
                  \E x \in Range(d.interactions) :
                      /\ x[3].num > 0
                      /\ i.interactions.entries[k]
                             = <<i.user_id_map[x[1]], i.item_id_map[x[2]], x[3].num>>
            /\ i.data_fingerprint = FingerprintOf(d)
            /\ i.model.present /\ i.model.steps = 0 /\ i.model.seed = call.seed
            /\ i.model.training
            /\ i.model.num_users = nu /\ i.model.num_items = ni
            /\ i.model.num_user_features = Cardinality(FeatureTags(d.user_features))
            /\ i.model.num_item_features = Cardinality(FeatureTags(d.event_features))

\* fit_data has returned on an instance that held a trained model with
\* feature vocabularies, for inputs without features.
RefitOfTrainedModel ==
    /\ call.op = "fit_data" /\ call.error = NoError
    /\ call.pre_life = "train_model" /\ call.pre.model.steps > 0
    /\ DOMAIN call.pre.user_feature_map # {}
    /\ call.data = DataNoPositives

\* fit_data has returned on an instance that held a loaded model.
RefitOfLoadedModel ==
    /\ call.op = "fit_data" /\ call.error = NoError
    /\ call.pre_life = "load_trained_model"

\* C17: load_trained_model for an owner without a record of the last
\* LoadMaxAgeDays days raises FileNotFoundError and leaves the instance as
\* it was; a fit_data for well-formed inputs and a train_model with a
\* positive batch size that follow return.
MissingModelRecoverable ==
    /\ (/\ call.op = "load_trained_model"
        /\ ~\E r \in table : /\ r.user_id = EngineKey
                             /\ r.created_at >= now - LoadMaxAgeDays * TicksPerDay)
          => /\ call.error = FileNotFoundError
             /\ inst[EngineKey] = call.pre
    /\ (/\ call.op = "fit_data" /\ call.recovery = "notfound" /\ WellFormed(call.data))
          => call.error = NoError
    /\ (/\ call.op = "train_model" /\ call.recovery = "refitted" /\ call.batch_size > 0)
          => call.error = NoError

\* load_trained_model has found no record on an instance that held a model,
\* the table holding a record that is too old.
LoadNotFoundOnFittedInstance ==
    /\ call.op = "load_trained_model" /\ call.error = FileNotFoundError
    /\ call.pre.model.present
    /\ \E r \in table : r.user_id = EngineKey

\* A model has been trained after a load_trained_model that found no record.
TrainedAfterNotFound ==
    /\ call.op = "train_model" /\ call.recovery = "refitted"
    /\ call.error = NoError /\ inst[EngineKey].model.steps > 0

\* C18: train_model with batch_size = 0 on a fitted instance raises and
\* leaves the instance as it was: no feature tensor refreshed, no optimizer
\* step taken.
BatchSizeZeroFailsFast ==
    (/\ call.op = "train_model" /\ call.batch_size = 0
     /\ call.pre_life \in {"fit_data", "train_model"})
        => /\ call.error # NoError
           /\ inst[EngineKey] = call.pre

\* train_model with batch_size = 0 raises on every fitted instance.
BatchSizeZeroRaises ==
    (/\ call.op = "train_model" /\ call.batch_size = 0
     /\ call.pre_life \in {"fit_data", "train_model"})
        => call.error = ValueError

----------------------------------------------------------------------------
(* Specification SpecAdmin: DELETE /model of huggingface_spaces_api.py over
   a table that load_or_train fills, the clock advancing *)

\* DELETE /model: the owner's instance leaves beacon_cache (the next request
\* constructs a new one) and cleanup_old_models(days_to_keep=0) runs.
HttpDeleteModel ==
    \E o \in Owners :
        LET k == StorageKey(o)
        IN  /\ inst' = [inst EXCEPT ![k] = NewInstance(o)]
            /\ table' = CleanupOldModels(table, now, 0)
            /\ life' = [life EXCEPT ![k] = "new"]
            /\ call' = [op |-> "delete_model", owner |-> o, pre_table |-> table,
                        pre_inst |-> inst]
            /\ UNCHANGED <<now, next_id, saved, fpin, req, runs>>

NextAdmin ==
    \/ Tick
    \/ CallLoadOrTrain
    \/ HttpDeleteModel

SpecAdmin == Init /\ [][NextAdmin]_vars

\* The rows of an owner key.
RowsOf(tbl, k) == {r \in tbl : r.user_id = k}

\* C19: DELETE /model for an owner removes that owner's instance and the
\* owner's records made before the request, and leaves the records of every
\* other owner key as they were.
DeleteAffectsOnlyOwner ==
    call.op = "delete_model" =>
        LET k == StorageKey(call.owner)
        IN  /\ inst[k] = NewInstance(call.owner)
            /\ \A r \in RowsOf(table, k) : ~(r.created_at < now)
            /\ \A other \in OwnerKeys \ {k} :
                  /\ RowsOf(table, other) = RowsOf(call.pre_table, other)
                  /\ inst[other] = call.pre_inst[other]

\* DELETE /model removes the owner's instance and the owner's records made
\* before the request.
DeleteRemovesOwner ==
    call.op = "delete_model" =>
        LET k == StorageKey(call.owner)
        IN  /\ inst[k] = NewInstance(call.owner)
            /\ \A r \in RowsOf(table, k) : ~(r.created_at < now)

\* DELETE /model has run for an owner with a record, another owner having a
\* record too.
DeletedWithTwoOwners ==
    /\ call.op = "delete_model"
    /\ \A k \in OwnerKeys : RowsOf(call.pre_table, k) # {}

----------------------------------------------------------------------------
(* Specification SpecFaulty: the freshness cache of one instance over a
   storage backend whose queries can fail *)

\* The exception a failing query of the storage client raises.
StorageError == "StorageError"

\* Which of the storage queries of a call fail: the load_model of
\* needs_training, the load_model of load_trained_model, save_model and the
\* delete of cleanup_old_models.
Faults == [check : BOOLEAN, load : BOOLEAN, save : BOOLEAN, cleanup : BOOLEAN]

\* What load_model works on: `except Exception: return None` makes a failing
\* query look like a table without a row.
Visible(tbl, fails) == IF fails THEN {} ELSE tbl

\* save_trained_model when save_model can fail: save_model logs and raises
\* again, before self.last_training_date is assigned.
SaveTrainedModelOn(i, tbl, nid, t, fails) ==
    IF i.model.present /\ fails
    THEN {[inst |-> i, table |-> tbl, next_id |-> nid, error |-> StorageError, id |-> 0]}
    ELSE SaveTrainedModel(i, tbl, nid, t)

\* cleanup_old_models when the delete can fail: the exception is logged and
\* the call returns.
CleanupOldModelsOn(tbl, t, days_to_keep, fails) ==
    IF fails THEN tbl ELSE CleanupOldModels(tbl, t, days_to_keep)

\* load_or_train over such a backend: the outcomes, with the storage queries
\* the call made.
LoadOrTrainOn(i, tbl, nid, t, d, force_retrain, p, losses, seed, ufm, ifm, f) ==
    UNION {IF MustTrain(force_retrain, need)
           THEN LET fit == FitData(i, d, seed, ufm, ifm)
                    tr == TrainModel(fit.inst, p, losses)
                    made == IF force_retrain THEN {} ELSE {"check"}
                IN  IF fit.error # NoError
                    THEN {[inst |-> fit.inst, table |-> tbl, next_id |-> nid, ret |-> "",
                           error |-> fit.error, made |-> made]}
                    ELSE IF tr.error # NoError
                    THEN {[inst |-> tr.inst, table |-> tbl, next_id |-> nid, ret |-> "",
                           error |-> tr.error, made |-> made]}
                    ELSE {[inst |-> sv.inst, table |-> sv.table, next_id |-> sv.next_id,
                           ret |-> IF sv.error = NoError THEN "trained" ELSE "",
                           error |-> sv.error, made |-> made \cup {"save"}] :
                            sv \in SaveTrainedModelOn(tr.inst, tbl, nid, t, f.save)}
           ELSE {[inst |-> l.inst, table |-> tbl, next_id |-> nid, ret |-> l.ret,
                  error |-> l.error, made |-> {"check", "load"}] :
                   l \in LoadTrainedModel(i, Visible(tbl, f.load), t, seed)} :
             need \in NeedsTraining(i, Visible(tbl, f.check), t, d)}

FaultyNeedsTraining ==
    \E f \in Faults, d \in {DataExample} :
        \E r \in NeedsTraining(inst[EngineKey], Visible(table, f.check), now, d) :
            /\ call' = [op |-> "needs_training", failed |-> f.check, ret |-> r,
                        error |-> NoError]
            /\ UNCHANGED <<now, table, next_id, inst, saved, fpin, req, runs, life>>

FaultyLoadOrTrain ==
    \E f \in Faults, d \in {DataExample}, force_retrain \in BOOLEAN :
        \E r \in LoadOrTrainOn(inst[EngineKey], table, next_id, now, d, force_retrain,
                               DefaultParams, DefaultLosses, TrainSeed, EmptyMap,
                               EmptyMap, f) :
            /\ runs < MaxRuns
            /\ runs' = runs + 1
            /\ inst' = [inst EXCEPT ![EngineKey] = r.inst]
            /\ table' = r.table
            /\ next_id' = r.next_id
            /\ call' = [op |-> "load_or_train", failed |-> \E q \in r.made : f[q],
                        ret |-> r.ret, error |-> r.error]
            /\ UNCHANGED <<now, saved, fpin, req, life>>

FaultyLoadTrainedModel ==
    \E f \in Faults :
        \E r \in LoadTrainedModel(inst[EngineKey], Visible(table, f.load), now, TrainSeed) :
            /\ inst' = [inst EXCEPT ![EngineKey] = r.inst]
            /\ call' = [op |-> "load_trained_model", failed |-> f.load, ret |-> r.ret,
                        error |-> r.error]
            /\ UNCHANGED <<now, table, next_id, saved, fpin, req, runs, life>>

FaultySaveTrainedModel ==
    \E f \in Faults :
        \E r \in SaveTrainedModelOn(inst[EngineKey], table, next_id, now, f.save) :
            /\ runs < MaxRuns
            /\ runs' = runs + 1
            /\ inst' = [inst EXCEPT ![EngineKey] = r.inst]
            /\ table' = r.table
            /\ next_id' = r.next_id
            /\ call' = [op |-> "save_trained_model",
                        failed |-> f.save /\ inst[EngineKey].model.present,
                        ret |-> "", error |-> r.error]
            /\ UNCHANGED <<now, saved, fpin, req, life>>

FaultyCleanupOldModels ==
    \E f \in Faults, days_to_keep \in KeepDays :
        /\ table' = CleanupOldModelsOn(table, now, days_to_keep, f.cleanup)
        /\ call' = [op |-> "cleanup_old_models", failed |-> f.cleanup, ret |-> "",
                    error |-> NoError]
        /\ UNCHANGED <<now, next_id, inst, saved, fpin, req, runs, life>>

NextFaulty ==
    \/ Tick
    \/ Restart
    \/ FaultyNeedsTraining
    \/ FaultyLoadOrTrain
    \/ FaultyLoadTrainedModel
    \/ FaultySaveTrainedModel
    \/ FaultyCleanupOldModels

SpecFaulty == Init /\ [][NextFaulty]_vars

\* C16: a cache operation one of whose storage queries failed raises, and
\* what it raises is not the not-found error.
StorageFailuresSurfaced ==
    (call.op \in {"needs_training", "load_or_train", "load_trained_model",
                  "save_trained_model", "cleanup_old_models"} /\ call.failed)
        => call.error \notin {NoError, FileNotFoundError}

\* A failure of save_model is surfaced by save_trained_model: the storage
\* client's exception reaches the caller.
SaveFailureSurfaced ==
    (call.op = "save_trained_model" /\ call.failed) => call.error = StorageError

\* needs_training has answered while its query failed, a fresh record being
\* in the table.
NeedsTrainingOnFailedQuery ==
    /\ call.op = "needs_training" /\ call.failed
    /\ \E r \in table : r.user_id = EngineKey /\ Date(r.created_at) = Date(now)

----------------------------------------------------------------------------
(* Specification SpecApp: recommend_events of spaces/app.py, whose
   EventRecommendationSystem holds one HuggingFaceBeaconAI, self.rec, for
   the requests of every user *)

\* The users whose requests arrive.
AppEmails == {"u1", "u2"}

\* EventRecommendationSystem.__init__: self.rec is constructed once, with
\* user_id=None.
NewApp == [rec |-> NewInstance(NoneId)]

\* self.rec.load_model_if_exists(): the latest record of the owner key is
\* restored when there is one; that there is none is reported by a false
\* status, not raised.
LoadModelIfExists(i, tbl, t, seed) ==
    {[inst |-> r.inst, status |-> IF r.error = NoError THEN r.ret ELSE ""] :
        r \in LoadTrainedModel(i, tbl, t, seed)}

\* self.rec.is_model_loaded()
IsModelLoaded(i) == i.model # NoModel

InitApp ==
    /\ now = 0 /\ table = {} /\ next_id = 1 /\ inst = NewApp
    /\ call = NoCall /\ saved = NothingSaved
    /\ fpin = NoFingerprints /\ req = NoRuns /\ runs = 0 /\ life = NoLife

\* The process restarts: recommender = EventRecommendationSystem()
AppRestart ==
    /\ inst # NewApp
    /\ inst' = NewApp
    /\ call' = [op |-> "restart"]
    /\ UNCHANGED <<now, table, next_id, saved, fpin, req, runs, life>>

\* recommend_events(email), its use of self.rec: the owner of self.rec
\* becomes the requesting user, the fast path restores that user's record,
\* and without one load_or_train runs on the data built for the request.
AppRecommendEvents ==
    \E email \in AppEmails, d \in CacheData, seed \in {TrainSeed} :
        \E ufm \in FeatureMaps(FeatureTags(d.user_features)),
           ifm \in FeatureMaps(FeatureTags(d.event_features)) :
            \E l \in LoadModelIfExists([inst.rec EXCEPT !.user_id = email], table, now, seed) :
                IF l.status # "" /\ IsModelLoaded(l.inst)
                THEN /\ inst' = [rec |-> l.inst]
                     /\ call' = [op |-> "recommend_events", email |-> email, path |-> "fast",
                                 error |-> NoError, pre |-> inst.rec, pre_table |-> table]
                     /\ UNCHANGED <<now, table, next_id, saved, fpin, req, runs, life>>
                ELSE \E r \in LoadOrTrain(l.inst, table, next_id, now, d, FALSE,
                                          DefaultParams, DefaultLosses, seed, ufm, ifm) :
                        /\ r.ran[1] = "fit_data" => runs < MaxRuns
                        /\ runs' = IF r.ran[1] = "fit_data" THEN runs + 1 ELSE runs
                        /\ inst' = [rec |-> r.inst]
                        /\ table' = r.table
                        /\ next_id' = r.next_id
                        /\ call' = [op |-> "recommend_events", email |-> email,
                                    path |-> "slow", error |-> r.error, pre |-> inst.rec,
                                    pre_table |-> table]
                        /\ UNCHANGED <<now, saved, fpin, req, life>>

NextApp ==
    \/ Tick
    \/ AppRestart
    \/ AppRecommendEvents

SpecApp == InitApp /\ [][NextApp]_vars

\* C13: an operation for one owner key leaves the in-process model, id maps
\* and feature tensors that serve another owner key, and that owner's
\* records, as they were.
OwnerIsolation ==
    (call.op = "recommend_events" /\ call.pre.user_id \notin {NoneId, call.email}) =>
        /\ Snapshot(inst.rec) = Snapshot(call.pre)
        /\ inst.rec.interactions = call.pre.interactions
        /\ \A k \in AppEmails \ {call.email} :
              RowsOf(table, k) = RowsOf(call.pre_table, k)

\* A request for one owner key leaves the records of the other owner keys as
\* they were.
AppRecordsIsolated ==
    call.op = "recommend_events" =>
        \A k \in AppEmails \ {call.email} : RowsOf(table, k) = RowsOf(call.pre_table, k)

\* A request has been served by the instance that had served another user
\* from a model.
ServedAfterAnotherOwner ==
    /\ call.op = "recommend_events" /\ call.error = NoError
    /\ call.pre.user_id \notin {NoneId, call.email}
    /\ IsModelLoaded(call.pre)

\* In huggingface_spaces_api.py, where get_beacon_ai keeps an instance per
\* owner key, needs_training, load_or_train and load_trained_model for one
\* owner key leave the instance and the records of every other key alone.
ApiOwnersIsolated ==
    [][\A k \in OwnerKeys :
          (/\ call'.op \in {"needs_training", "load_or_train", "load_trained_model"}
           /\ StorageKey(call'.owner) # k)
          => /\ inst'[k] = inst[k]
             /\ RowsOf(table', k) = RowsOf(table, k)]_vars

----------------------------------------------------------------------------
(* Caching across load_or_train calls, in Spec *)

\* A load_or_train call made now for owner key k with data d while the last
\* run that returned "trained" for k was on the same data and the same
\* calendar day.
TrainedTodayOn(k, d) ==
    /\ saved[k].has
    /\ Date(saved[k].at) = Date(now)
    /\ saved[k].inst.data_fingerprint = Fingerprint(d)

\* C21: after load_or_train has returned "trained", a further call for the
\* same owner key with the same inputs on the same calendar day and
\* force_retrain=False returns "loaded" and runs no training.
CachingEffective ==
    [][(/\ call'.op = "load_or_train"
        /\ ~call'.force_retrain
        /\ TrainedTodayOn(StorageKey(call'.owner), call'.data))
       => (/\ call'.ret = "loaded"
           /\ call'.ran = <<"load_trained_model">>)]_vars

\* The same while the record the training run wrote is still in the table.
CachingEffectiveWhileRecordKept ==
    [][(/\ call'.op = "load_or_train"
        /\ ~call'.force_retrain
        /\ TrainedTodayOn(StorageKey(call'.owner), call'.data)
        /\ \E r \in table : r.id = saved[StorageKey(call'.owner)].id)
       => (/\ call'.ret = "loaded"
           /\ call'.ran = <<"load_trained_model">>)]_vars

\* load_or_train has returned "loaded" on the day and the data of the
\* owner's last training run.
LoadedFromCache ==
    /\ call.op = "load_or_train" /\ ~call.force_retrain /\ call.ret = "loaded"
    /\ TrainedTodayOn(StorageKey(call.owner), call.data)

----------------------------------------------------------------------------
(* Specification SpecTrain: the epoch loop of train_model, one epoch a step *)

MaxTrainEpochs == 4
MaxLoss == 2

\* epochs, use_early_stopping and patience as a caller may give them.
LoopParams ==
    [epochs : 0..MaxTrainEpochs, use_early_stopping : BOOLEAN,
     patience : 0..DefaultPatience]

\* train_model up to the loop: best_loss = float('inf'), patience_counter = 0.
\* has_batches says whether dataset_size > 0.
TrainStart ==
    /\ req.pc = "none"
    /\ \E p \in LoopParams, has_batches \in BOOLEAN :
          req' = [pc |-> "for", p |-> p, has_batches |-> has_batches, epoch |-> 0,
                  best_loss |-> Infinity, patience_counter |-> 0, history |-> <<>>]
    /\ call' = [op |-> "train_model"]
    /\ UNCHANGED <<now, table, next_id, inst, saved, fpin, runs, life>>

\* One pass of `for epoch in range(epochs)`: the batches give the mean loss
\* avg_loss (0 without batches), then the early stopping test.
TrainEpoch ==
    /\ req.pc = "for"
    /\ req.epoch < req.p.epochs
    /\ \E loss \in 0..MaxLoss :
          LET avg_loss == IF req.has_batches THEN loss ELSE 0
              ran == [req EXCEPT !.epoch = @ + 1, !.history = Append(@, avg_loss)]
          IN  req' = IF ~req.p.use_early_stopping THEN ran
                     ELSE IF Improves(avg_loss, req.best_loss)
                     THEN [ran EXCEPT !.best_loss = avg_loss, !.patience_counter = 0]
                     ELSE IF req.patience_counter + 1 >= req.p.patience
                     THEN [ran EXCEPT !.patience_counter = @ + 1, !.pc = "returned"]
                     ELSE [ran EXCEPT !.patience_counter = @ + 1]
    /\ call' = [op |-> "epoch"]
    /\ UNCHANGED <<now, table, next_id, inst, saved, fpin, runs, life>>

\* range(epochs) is exhausted: train_model returns.
TrainExhausted ==
    /\ req.pc = "for"
    /\ req.epoch >= req.p.epochs
    /\ req' = [req EXCEPT !.pc = "returned"]
    /\ call' = [op |-> "return"]
    /\ UNCHANGED <<now, table, next_id, inst, saved, fpin, runs, life>>

\* The next call of train_model may begin.
TrainAgain ==
    /\ req.pc = "returned"
    /\ req' = NoRuns
    /\ call' = NoCall
    /\ UNCHANGED <<now, table, next_id, inst, saved, fpin, runs, life>>

NextTrain ==
    \/ TrainStart
    \/ TrainEpoch
    \/ TrainExhausted
    \/ TrainAgain

SpecTrain == Init /\ [][NextTrain]_vars

\* The loop is a running thread's code: it takes its next step.
SpecTrainFair == SpecTrain /\ WF_vars(TrainEpoch) /\ WF_vars(TrainExhausted)

\* Epoch e's mean loss was not strictly below every mean loss before it.
FailedToImprove(h, e) == e > 1 /\ \E j \in 1..(e - 1) : h[j] <= h[e]

\* Epoch e failed to improve and ends `patience` consecutive such epochs.
PatienceExhausted(h, e, patience) ==
    /\ FailedToImprove(h, e)
    /\ \A j \in (e - patience + 1)..e : j >= 1 /\ FailedToImprove(h, j)

\* The epochs run are those the early stopping rule allows, at most `epochs`.
StopsWhenPatienceExhausted ==
    req.pc \in {"for", "returned"} =>
        LET h == req.history
            n == Len(h)
        IN  /\ n = req.epoch /\ n <= req.p.epochs
            /\ (req.pc = "returned" /\ ~req.p.use_early_stopping) => n = req.p.epochs
            /\ req.p.use_early_stopping =>
                  /\ \A e \in 1..(n - 1) : ~PatienceExhausted(h, e, req.p.patience)
                  /\ (req.pc = "for" /\ n >= 1) => ~PatienceExhausted(h, n, req.p.patience)
                  /\ (req.pc = "returned" /\ n < req.p.epochs)
                        => PatienceExhausted(h, n, req.p.patience)

\* C22: with early stopping train_model stops right after the first epoch
\* that ends `patience` consecutive epochs without a mean loss strictly
\* below the best so far, and never runs more than `epochs` epochs; without
\* it the loop runs exactly `epochs` epochs; in both cases the call returns.
EarlyStopping ==
    /\ []StopsWhenPatienceExhausted
    /\ (req.pc = "for") ~> (req.pc = "returned")

\* train_model has stopped early, after more than one epoch without
\* improvement.
StoppedEarly ==
    /\ req.pc = "returned" /\ req.p.use_early_stopping
    /\ req.p.patience >= 2 /\ req.epoch < req.p.epochs

\* The epochs the loop runs are those train_model as a whole runs on a fitted
\* instance when the epochs come out with the same mean losses.
LoopAgreesWithTrainModel ==
    req.pc = "returned" =>
        LET d == IF req.has_batches THEN DataWeighted ELSE DataNoPositives
            ufm == CHOOSE f \in FeatureMaps(FeatureTags(d.user_features)) : TRUE
            ifm == CHOOSE f \in FeatureMaps(FeatureTags(d.event_features)) : TRUE
            fitted == FitData(NewInstance(NoneId), d, TrainSeed, ufm, ifm).inst
            p == [DefaultParams EXCEPT !.epochs = req.p.epochs,
                                       !.use_early_stopping = req.p.use_early_stopping,
                                       !.patience = req.p.patience]
            losses == [e \in 1..req.p.epochs |->
                          IF e <= Len(req.history) THEN req.history[e] ELSE 0]
            r == TrainModel(fitted, p, losses)
        IN  r.error = NoError /\ r.epochs_run = req.epoch

----------------------------------------------------------------------------
(* Ranking by recommend_for_user, in SpecEngine *)

\* ret lists items of `candidates` without repetition in non-increasing
\* score order, min(top_n, |candidates|) of them, and no candidate left out
\* scores above a listed one.
RankedTopN(i, user_id, top_n, candidates, ret) ==
    LET scores == Scores(i, i.user_id_map[user_id])
    IN  /\ ReturnedItems(ret) \subseteq candidates
        /\ \A a, b \in 1..Len(ret) : a # b => ret[a][1] # ret[b][1]
        /\ \A a \in 1..Len(ret) : ret[a][2] = scores[i.item_id_map[ret[a][1]]]
        /\ \A a \in 1..(Len(ret) - 1) : ret[a][2] >= ret[a + 1][2]
        /\ Len(ret) = Min2(top_n, Cardinality(candidates))
        /\ \A x \in candidates \ ReturnedItems(ret) :
              \A a \in 1..Len(ret) : scores[i.item_id_map[x]] <= ret[a][2]

\* C23: for a known user and top_n >= 1, recommend_for_user returns the
\* non-excluded items in non-increasing score order without duplicates,
\* exactly min(top_n, number of non-excluded items) of them, and leaves out
\* no non-excluded item that scores above a returned one.
RankingContract ==
    (/\ call.op = "recommend_for_user" /\ call.error = NoError
     /\ KnownUser(inst[EngineKey], call.user_id)
     /\ call.top_n >= 1)
        => RankedTopN(inst[EngineKey], call.user_id, call.top_n,
                      DOMAIN inst[EngineKey].item_id_map \ CallExclusionSet, call.ret)

\* The same over the items the call itself filters out: those of the user's
\* triples whose weight equals 1.
RankingOverUnfiltered ==
    (/\ call.op = "recommend_for_user" /\ call.error = NoError
     /\ KnownUser(inst[EngineKey], call.user_id)
     /\ call.top_n >= 1)
        => LET i == inst[EngineKey]
               liked_items == LikedItems(i, call.user_id, call.filter_liked,
                                         call.interactions)
           IN  RankedTopN(i, call.user_id, call.top_n,
                          {x \in DOMAIN i.item_id_map : i.item_id_map[x] \notin liked_items},
                          call.ret)

\* A known user has been given fewer items than were asked for, some being
\* filtered out.
RankedWithFilteredItems ==
    /\ call.op = "recommend_for_user" /\ call.error = NoError
    /\ KnownUser(inst[EngineKey], call.user_id)
    /\ call.ret # <<>> /\ Len(call.ret) < call.top_n

----------------------------------------------------------------------------
(* Specification SpecFit: fit_data on a new instance, over every input of
   bounded length: ids given once or more than once, triples of known and
   unknown users and events, weights below, at and above zero *)

FitTriples ==
    {Triple(u, e, PyFloat(w)) : u \in {"u1", "u9"}, e \in {"i1", "i3"}, w \in {-1, 0, 2}}

FitInputs ==
    {[users |-> u, events |-> e, user_features |-> <<>>, event_features |-> <<>>,
      interactions |-> x] :
        u \in SeqsUpTo({"u1", "u2"}, MaxLen), e \in SeqsUpTo({"i1"}, MaxLen),
        x \in SeqsUpTo(FitTriples, MaxLen)}

InitFit ==
    /\ now = 0 /\ table = {} /\ next_id = 1 /\ inst = FreshCache
    /\ call = NoCall /\ saved = NothingSaved /\ fpin = NoFingerprints
    /\ runs = 0 /\ life = NoLife
    /\ \E d \in FitInputs : req = [pc |-> "input", data |-> d]

\* fit_data(users, events, [], [], interactions)
FitApply ==
    /\ req.pc = "input"
    /\ LET r == FitData(inst[EngineKey], req.data, TrainSeed, EmptyMap, EmptyMap)
       IN  /\ inst' = [inst EXCEPT ![EngineKey] = r.inst]
           /\ call' = [op |-> "fit_data", data |-> req.data, error |-> r.error]
           /\ life' = IF r.error = NoError THEN [life EXCEPT ![EngineKey] = "fit_data"]
                      ELSE life
    /\ req' = [req EXCEPT !.pc = "done"]
    /\ UNCHANGED <<now, table, next_id, saved, fpin, runs>>

NextFit == FitApply

SpecFit == InitFit /\ [][NextFit]_vars

\* A triple is a positive example under the maps of instance i.
IsPositive(i, x) ==
    x[3].num > 0 /\ x[1] \in DOMAIN i.user_id_map /\ x[2] \in DOMAIN i.item_id_map

\* C24: after fit_data the positive examples are exactly the input triples
\* with a weight > 0 and both ids in the maps, in input order, each as
\* (user index, item index, weight); the other triples are dropped, and no
\* input whose ids are given once makes fit_data raise.
InteractionFiltering ==
    call.op = "fit_data" =>
        LET i == inst[EngineKey]
            kept == SelectSeq(call.data.interactions, LAMBDA x : IsPositive(i, x))
        IN  /\ call.error = NoError =>
                  /\ i.interactions.present
                  /\ i.interactions.entries =
                        [k \in 1..Len(kept) |->
                            <<i.user_id_map[kept[k][1]], i.item_id_map[kept[k][2]],
                              kept[k][3].num>>]
            /\ WellFormed(call.data) => call.error = NoError

\* fit_data has kept one triple and dropped another.
KeptAndDropped ==
    /\ call.op = "fit_data" /\ call.error = NoError
    /\ Len(inst[EngineKey].interactions.entries) = 1
    /\ Len(call.data.interactions) = 2
    /\ \E k \in 1..2 : call.data.interactions[k][2] = "i3"

\* id_map and its reverse are mutually inverse bijections between the ids
\* given and 0..n-1, n being the number of entries and of table rows.
DenseBijection(ids, id_map, internal_to_id, rows) ==
    LET n == Cardinality(DOMAIN id_map)
    IN  /\ DOMAIN id_map = Range(ids)
        /\ {id_map[x] : x \in DOMAIN id_map} = 0..(n - 1)
        /\ DOMAIN internal_to_id = 0..(n - 1)
        /\ \A x \in DOMAIN id_map : internal_to_id[id_map[x]] = x
        /\ \A k \in DOMAIN internal_to_id : id_map[internal_to_id[k]] = k
        /\ rows = n

\* The maps of the instance are dense bijections.
MapsAreDense ==
    LET i == inst[EngineKey]
    IN  /\ DenseBijection(call.data.users, i.user_id_map, i.internal_to_user,
                          i.model.num_users)
        /\ DenseBijection(call.data.events, i.item_id_map, i.internal_to_item,
                          i.model.num_items)

\* C25: after fit_data on any users and items sequences, sequences that
\* give an id more than once included, each id map and its reverse are
\* mutually inverse bijections between the distinct ids and 0..n-1, with n
\* the number of entries and of rows of the embedding table.
DenseIndexBijection ==
    (call.op = "fit_data" /\ call.error = NoError) => MapsAreDense

\* The same for sequences that give every id once.
DenseIndexBijectionOnDistinctIds ==
    (call.op = "fit_data" /\ call.error = NoError /\ WellFormed(call.data))
        => MapsAreDense

\* fit_data has returned on users that name one id twice.
FittedRepeatedId ==
    /\ call.op = "fit_data" /\ call.error = NoError
    /\ call.data.users = <<"u1", "u1">>

----------------------------------------------------------------------------
(* Serving after a failed training run, in SpecHttp *)

\* C26: when recommend_for_user computes scores on an instance no training
\* run is at work on, the model is one train_model has completed on since
\* the latest fit_data, or one load_trained_model restored: a fit_and_train
\* that failed after fit_data leaves no untrained model to be served.
OnlyTrainedModelsServed ==
    (call.op = "recommend" /\ call.read /\ call.status = "200" /\ ~call.in_flight)
        => call.completed

\* /recommend has been answered from a model train_model completed on, no
\* run being at work.
ServedTrainedModel ==
    /\ call.op = "recommend" /\ call.read /\ call.status = "200"
    /\ ~call.in_flight /\ call.completed

----------------------------------------------------------------------------
(* Specification SpecDecode: load_trained_model on records of which one
   part may fail to decode *)

UnpicklingError == "UnpicklingError"

\* The steps of load_trained_model that decode a part of the record.
DecodingSteps == {"model", "mappings", "features", "metadata"}

\* load_trained_model when the step fails_at raises on the record read
\* ("none": every step decodes): the assignments made before that step stay.
LoadTrainedModelDecoding(i, tbl, t, seed, fails_at) ==
    LET whole == LoadTrainedModel(i, tbl, t, seed)
        Partial(l) ==
            CASE fails_at = "model" -> i
              [] fails_at = "mappings" -> [i EXCEPT !.model = l.model]
              [] fails_at = "features" ->
                    [i EXCEPT !.model = l.model,
                              !.user_id_map = l.user_id_map,
                              !.item_id_map = l.item_id_map,
                              !.user_feature_map = l.user_feature_map,
                              !.item_feature_map = l.item_feature_map,
                              !.internal_to_user = l.internal_to_user,
                              !.internal_to_item = l.internal_to_item]
              [] OTHER -> [l EXCEPT !.last_training_date = i.last_training_date]
    IN  IF fails_at = "none" THEN whole
        ELSE {IF r.error # NoError THEN r
              ELSE [inst |-> Partial(r.inst), ret |-> "", error |-> UnpicklingError] :
                 r \in whole}

DecodeLoadTrainedModel ==
    \E o \in Owners, seed \in {TrainSeed}, fails_at \in DecodingSteps \cup {"none"} :
        LET k == StorageKey(o)
        IN  \E r \in LoadTrainedModelDecoding(inst[k], table, now, seed, fails_at) :
                /\ inst' = [inst EXCEPT ![k] = r.inst]
                /\ call' = [op |-> "load_trained_model", owner |-> o, ret |-> r.ret,
                            error |-> r.error, fails_at |-> fails_at, pre |-> inst[k]]
                /\ life' = IF r.error = NoError THEN [life EXCEPT ![k] = "load_trained_model"]
                           ELSE life
                /\ UNCHANGED <<now, table, next_id, saved, fpin, req, runs>>

NextDecode ==
    \/ Tick
    \/ Restart
    \/ CallLoadOrTrain
    \/ DecodeLoadTrainedModel

SpecDecode == Init /\ [][NextDecode]_vars

\* C27: a load_trained_model that raises, at whatever step, leaves the
\* instance's model, id maps, feature tensors, fingerprint and last training
\* date as they were before the call.
LoadAllOrNothing ==
    (call.op = "load_trained_model" /\ call.error # NoError)
        => inst[StorageKey(call.owner)] = call.pre

\* A load that finds no record, or fails to decode the model, leaves the
\* instance as it was.
LoadFailsEarlyUnchanged ==
    (/\ call.op = "load_trained_model" /\ call.error # NoError
     /\ (call.error = FileNotFoundError \/ call.fails_at = "model"))
        => inst[StorageKey(call.owner)] = call.pre

\* A load has raised while decoding the mappings of a record, on an instance
\* that held another model.
LoadRaisedAtMappings ==
    /\ call.op = "load_trained_model" /\ call.error = UnpicklingError
    /\ call.fails_at = "mappings" /\ call.pre.model.present

----------------------------------------------------------------------------
(* Specification SpecReload: the calls of SpecLife in a process started
   after an earlier process trained and saved a model *)

\* The data the earlier process trained on.
ReloadData == DataTagged

\* The table as load_or_train(force_retrain=True) of the earlier process left
\* it, and a newly constructed instance.
InitReload ==
    /\ now = 0 /\ inst = FreshCache
    /\ call = NoCall /\ saved = NothingSaved /\ fpin = NoFingerprints
    /\ req = NewHistory /\ runs = 0 /\ life = NoLife
    /\ \E ufm \in FeatureMaps(FeatureTags(ReloadData.user_features)),
          ifm \in FeatureMaps(FeatureTags(ReloadData.event_features)) :
          \E r \in LoadOrTrain(NewInstance(EngineOwner), {}, 1, 0, ReloadData, TRUE,
                               DefaultParams, DefaultLosses, TrainSeed, ufm, ifm) :
              /\ r.error = NoError
              /\ table = r.table
              /\ next_id = r.next_id

SpecReload == InitReload /\ [][NextLife]_vars

\* The interaction matrix of instance i is the one fit_data builds from the
\* data the instance's model and maps come from.
MatrixOfModel(i) ==
    /\ i.interactions.present
    /\ i.interactions.shape = <<i.model.num_users, i.model.num_items>>
    /\ \E d \in LifeData \cup {ReloadData} :
          /\ Fingerprint(d) = i.data_fingerprint
          /\ i.user_id_map = IdMap(d.users) /\ i.item_id_map = IdMap(d.events)
          /\ i.interactions.entries =
                PositiveTriples(d.interactions, d.events, i.user_id_map, i.item_id_map, 1)

\* C28: whenever train_model gets past its test for a missing model, the
\* interaction matrix it trains on was built by the fit_data call the model
\* and the id maps come from; after a load_trained_model it does not train
\* the loaded model on a missing or an older matrix.
TrainingDataMatchesModel ==
    (call.op = "train_model" /\ call.pre.model.present) => MatrixOfModel(call.pre)

\* train_model has returned after training a loaded model on the matrix of
\* an earlier fit_data on other data.
TrainedOnStaleMatrix ==
    /\ call.op = "train_model" /\ call.error = NoError
    /\ call.pre_life = "load_trained_model"
    /\ call.pre.interactions.present
    /\ Len(call.pre.interactions.entries) > 0
    /\ ~MatrixOfModel(call.pre)
    /\ inst[EngineKey].model.steps > call.pre.model.steps

\* train_model called right after a fit_data that returned finds the matrix
\* of its model.
TrainingDataMatchesAfterFit ==
    [][(/\ call.op = "fit_data" /\ call.error = NoError
        /\ call'.op = "train_model")
       => MatrixOfModel(call'.pre)]_vars

----------------------------------------------------------------------------
(* recommend_for_user with top_n = 0, in SpecEngine *)

\* C29: for a known user, recommend_for_user with top_n = 0 returns the
\* empty list, whatever items were fitted.
TopNZeroReturnsEmpty ==
    (/\ call.op = "recommend_for_user" /\ call.top_n = 0
     /\ inst[EngineKey].model.present
     /\ KnownUser(inst[EngineKey], call.user_id))
        => call.error = NoError /\ call.ret = <<>>

\* With top_n = 0 and an item to return, the call returns one item.
TopNZeroReturnsOne ==
    (/\ call.op = "recommend_for_user" /\ call.top_n = 0 /\ call.error = NoError
     /\ ~call.filter_liked
     /\ KnownUser(inst[EngineKey], call.user_id))
        => Len(call.ret) = 1

\* recommend_for_user has been called with top_n = 0 for a known user on
\* fitted items.
CalledWithTopNZero ==
    /\ call.op = "recommend_for_user" /\ call.top_n = 0 /\ call.error = NoError
    /\ KnownUser(inst[EngineKey], call.user_id)
    /\ DOMAIN inst[EngineKey].item_id_map # {}

\* ---------------------------------------------------------------------
\* ModelStorage on its own: save_model and load_model called one after the
\* other for the owners, with the clock passing between the calls.
\* saved[k] remembers the most recent save_model of owner key k.

StoreContents == {"m1", "m2"}

StoreSaveModel ==
    \E o \in Owners, c \in StoreContents :
      \E r \in SaveModel(table, next_id, now, o, c, c, c, [last_training_date |-> now], <<c>>) :
        /\ table' = r.table
        /\ next_id' = r.next_id
        /\ saved' = [saved EXCEPT ![StorageKey(o)] =
                        [has |-> TRUE, content |-> c, at |-> now, id |-> r.id]]
        /\ call' = [op |-> "save_model", owner |-> o, content |-> c, id |-> r.id]
        /\ UNCHANGED <<now, inst, fpin, req, runs, life>>

StoreLoadModel ==
    \E o \in Owners :
        /\ call' = [op |-> "load_model", owner |-> o,
                    ret |-> LoadModel(table, now, o, LoadMaxAgeDays)]
        /\ UNCHANGED <<now, table, next_id, inst, fpin, saved, req, runs, life>>

NextStore == Tick \/ StoreSaveModel \/ StoreLoadModel

SpecStore == Init /\ [][NextStore]_vars

\* C30: a second save_model on the same calendar day replaces the owner's
\* record instead of adding one, so the table holds at most one record per
\* owner key and calendar day; load_model hands back one record at most,
\* never content older than the owner's most recent save, and hands that
\* content back whenever the most recent save was made today.
OneRecordPerOwnerPerDay ==
    /\ \A r1 \in table, r2 \in table :
          (r1.user_id = r2.user_id /\ Date(r1.created_at) = Date(r2.created_at))
             => r1 = r2
    /\ call.op = "load_model" =>
          LET s == saved[StorageKey(call.owner)]
          IN  /\ Cardinality(call.ret) <= 1
              /\ \A x \in call.ret : s.has /\ x.model_data = s.content
              /\ (s.has /\ Date(s.at) = Date(now)) => call.ret # {}

\* load_model returned the content of a save that replaced the day's record
\* in place, while the owner also has a record of an earlier day.
LoadedSupersedingRecord ==
    /\ call.op = "load_model"
    /\ call.ret # {}
    /\ \E r \in table, q \in table :
          /\ r.user_id = StorageKey(call.owner)
          /\ q.user_id = r.user_id
          /\ q.created_at < r.created_at
          /\ r.updated_at > r.created_at
          /\ B64Decode(r.model_data) # B64Decode(q.model_data)
          /\ \A x \in call.ret : x.model_data = B64Decode(r.model_data)

\* The replaced record keeps the created_at of the day's first save, and
\* load_model's age window is counted from created_at: a record replaced
\* less than max_age_days ago can already be out of the window.
LoadMissedRecentSave ==
    /\ call.op = "load_model"
    /\ call.ret = {}
    /\ saved[StorageKey(call.owner)].has
    /\ now - saved[StorageKey(call.owner)].at <= LoadMaxAgeDays * TicksPerDay

====
